---- MODULE Spec2Model ----
(***************************************************************************)
(* Model of the bird-quiz web client: the question generation engine       *)
(* (utils/questionGenerator), the media helpers (utils/dataLoader), the    *)
(* quiz reducer (reducers/quizReducer) and the QuizContext action creators.*)
(*                                                                         *)
(* Math.random() is a nondeterministic choice: every function that draws   *)
(* random numbers is an operator returning the SET of its possible         *)
(* results.  A JavaScript null is the record NULL; a function returning    *)
(* "array or null" returns NULL or Some(array).  An absent (undefined)     *)
(* object property is an absent record field.                              *)
(***************************************************************************)
EXTENDS Integers, Sequences, FiniteSets, TLC

VARIABLES
    state,        \* the QuizState held by useReducer in QuizProvider
    presented,    \* history: number of non-null questions installed since Init
    clock,        \* the wall clock read by new Date()
    history,      \* history: the payloads of all RECORD_ANSWER actions so far
    pendingLoads, \* loadBirds calls whose fetch has not resolved yet
    genBirds,     \* generateQuestion: argument birds
    genSettings,  \* generateQuestion: argument settings
    genPc,        \* generateQuestion: "idle", "loop" or "done"
    attempts,     \* generateQuestion: local variable attempts
    calls,        \* history: number of type generator invocations of the call
    genHead,      \* the running generator: its question so far and exclusions
    genWrong,     \* the running generator: wrongBirds
    genOptions,   \* createAnswerOptions: the options array built so far
    genResult,    \* generateQuestion: the returned value once genPc = "done"
    fnCall,       \* a call of one exported function on its own: name and arguments
    fnResult,     \* the value that call returned, once it has returned
    sharedStats,  \* the overallStats, modeStats and speciesStats objects that
                  \* every Progress value of the run refers to
    reducerCalls, \* how often React invokes the reducer for one dispatched action
    hookSettings,   \* useQuizSettings: the settings held by useState
    storedSettings, \* useQuizSettings: the localStorage item 'bird-quiz-settings'
    localSettings,  \* QuizSettings dialog: the localSettings held by useState
    hookProgress,   \* useProgress: the progress held by useState
    inFlight        \* the loadBirds calls of the run in the order they started,
                    \* each pending, resolved with its species or rejected

vars == <<state, presented, clock, history, pendingLoads,
          genBirds, genSettings, genPc, attempts, calls, genHead, genWrong,
          genOptions, genResult, fnCall, fnResult, sharedStats, reducerCalls,
          hookSettings, storedSettings, localSettings, hookProgress, inFlight>>

quizVars == <<state, presented, clock, history, pendingLoads>>
genVars == <<genBirds, genSettings, genPc, attempts, calls, genHead, genWrong,
             genOptions, genResult>>
callVars == <<fnCall, fnResult>>
reactVars == <<sharedStats, reducerCalls>>
hookVars == <<hookSettings, storedSettings, localSettings, hookProgress>>
fetchVars == <<inFlight>>

-----------------------------------------------------------------------------
(* Values *)

NULL == [null |-> TRUE]

Some(v) == [some |-> v]

\* null / undefined for string-typed properties
NullStr == "null"

Undefined == "undefined"

Range(s) == {s[i] : i \in 1..Len(s)}

Min(a, b) == IF a < b THEN a ELSE b

Max(a, b) == IF a > b THEN a ELSE b

-----------------------------------------------------------------------------
(* Bounds of the model *)

\* most photos of one species
MaxPhotos == 2

\* most recordings of one species
MaxRecordings == 2

\* most RECORD_ANSWER actions in a run of the progress tracker
MaxAnswers == 25

\* most answers in a run of the progress tracker that are not a correct
\* answer about the first species
MaxOther == 2

\* most answers given in a run of the quiz state machine
MaxQuizAnswers == 2

\* most installed questions counted in a run of the quiz state machine
MaxPresented == 1

\* most loadBirds calls in flight at a time
MaxPendingLoads == 1

\* most species in a pool handed to getWrongAnswers on its own
MaxCallPool == 5

\* most RECORD_ANSWER actions in a run that follows the shared stats objects
MaxSharedAnswers == 3

-----------------------------------------------------------------------------
(* Program constants *)

\* the loop bound off by one
MaxGenerationAttemptsOffByOne == 10 + 1

MAX_GENERATION_ATTEMPTS == 10

\* the pool-size floor off by one
MinBirdsOffByOne == 4 - 1

MIN_BIRDS_FOR_QUESTION == 4

WRONG_ANSWERS_COUNT == 3

ROLLING_BUFFER_SIZE == 20

QUESTION_MODALITIES == <<"photo", "audio">>

MIXED_ANSWER_TYPES == <<"text", "text-image", "image-only", "audio-only">>

NAME_TO_MEDIA_ANSWER_TYPES == <<"image-only", "audio-only">>

QuestionTypes == {"photo-to-name", "audio-to-name", "photo-audio-to-name",
                  "name-to-media", "mixed"}

AnswerFormats == {"text", "photo", "audio", "mixed"}

-----------------------------------------------------------------------------
(* Species records (types/bird.ts): the fields the quiz logic reads *)

BirdPhoto(i, k) == [cached |-> "photos/b" \o ToString(i) \o "_" \o ToString(k) \o ".jpg"]

BirdRecording(i, k) ==
    [id |-> "XC" \o ToString(i) \o ToString(k),
     cachedAudio |-> "audio/b" \o ToString(i) \o "_" \o ToString(k) \o ".mp3"]

\* species number i with np photos and nr recordings
Bird(i, np, nr) ==
    [id |-> "b" \o ToString(i),
     commonName |-> "Bird " \o ToString(i),
     photos |-> [k \in 1..np |-> BirdPhoto(i, k)],
     recordings |-> [k \in 1..nr |-> BirdRecording(i, k)]]

-----------------------------------------------------------------------------
(* utils/dataLoader.ts: media helpers *)

\* a string that passes a JavaScript truthiness test "if (s)"
Truthy(s) == s # Undefined /\ s # NullStr /\ s # ""

getPhotoUrl(photo) == "/" \o photo.cached

getRandomPhoto(bird) ==
    IF Len(bird.photos) = 0
    THEN {"/placeholder-bird.jpg"}
    ELSE {getPhotoUrl(bird.photos[randomIndex]) : randomIndex \in 1..Len(bird.photos)}

getRecordingAudioUrl(recording) == "/" \o recording.cachedAudio

getRandomRecording(bird) ==
    IF Len(bird.recordings) = 0
    THEN {NULL}
    ELSE {bird.recordings[randomIndex] : randomIndex \in 1..Len(bird.recordings)}

\* the alternative photo drawn without filtering out the excluded one
getRandomPhotoIgnoringExclusion(bird, excludeUrl) ==
    IF Len(bird.photos) = 0
    THEN {NullStr}
    ELSE {getPhotoUrl(bird.photos[randomIndex]) : randomIndex \in 1..Len(bird.photos)}

getRandomPhotoDifferentFrom(bird, excludeUrl) ==
    IF Len(bird.photos) = 0
    THEN {NullStr}
    ELSE LET availablePhotos ==
                 SelectSeq(bird.photos, LAMBDA photo : getPhotoUrl(photo) # excludeUrl)
         IN  IF Len(availablePhotos) = 0
             THEN {NullStr}
             ELSE {getPhotoUrl(availablePhotos[randomIndex]) :
                       randomIndex \in 1..Len(availablePhotos)}

getRandomRecordingDifferentFrom(bird, excludeUrl) ==
    IF Len(bird.recordings) = 0
    THEN {NULL}
    ELSE LET availableRecordings ==
                 SelectSeq(bird.recordings,
                           LAMBDA recording : getRecordingAudioUrl(recording) # excludeUrl)
         IN  IF Len(availableRecordings) = 0
             THEN {NULL}
             ELSE {availableRecordings[randomIndex] :
                       randomIndex \in 1..Len(availableRecordings)}

\* an exchange that overwrites position i and leaves position j as it was
SwapOverwriting(s, i, j) == [s EXCEPT ![i] = s[j]]

Swap(s, i, j) == [s EXCEPT ![i] = s[j], ![j] = s[i]]

\* the Fisher-Yates loop from position i (1-based) down to position 2
RECURSIVE ShuffleFrom(_, _)
ShuffleFrom(shuffled, i) ==
    IF i < 2
    THEN {shuffled}
    ELSE UNION {ShuffleFrom(Swap(shuffled, i, j), i - 1) : j \in 1..i}

shuffleArray(array) == ShuffleFrom(array, Len(array))

\* the wrong birds drawn without filtering out the correct bird
getWrongAnswersUnfiltered(allBirds, correctBird, count) ==
    {SubSeq(s, 1, Min(count, Len(s))) : s \in shuffleArray(allBirds)}

getWrongAnswers(allBirds, correctBird, count) ==
    LET wrongBirds == SelectSeq(allBirds, LAMBDA bird : bird.id # correctBird.id)
    IN  {SubSeq(s, 1, Min(count, Len(s))) : s \in shuffleArray(wrongBirds)}

-----------------------------------------------------------------------------
(* questionGenerator/validation/filterBirdsByMedia.ts *)

filterBirdsWithPhotos(birds) == SelectSeq(birds, LAMBDA bird : Len(bird.photos) > 0)

filterBirdsWithRecordings(birds) == SelectSeq(birds, LAMBDA bird : Len(bird.recordings) > 0)

filterBirdsWithBothMedia(birds) ==
    SelectSeq(birds, LAMBDA bird : Len(bird.photos) > 0 /\ Len(bird.recordings) > 0)

filterBirdsByAnswerFormat(birds, answerFormat) ==
    CASE answerFormat = "photo" -> filterBirdsWithPhotos(birds)
      [] answerFormat = "audio" -> filterBirdsWithRecordings(birds)
      [] OTHER -> birds

-----------------------------------------------------------------------------
(* questionGenerator/options/createMixedOption.ts *)

createTextOption(bird, hideLabel) ==
    [id |-> bird.id, label |-> bird.commonName, type |-> "text", hideLabel |-> hideLabel]

createTextImageOption(bird, excludePhotoUrl, hideLabel) ==
    LET imageUrls == IF Truthy(excludePhotoUrl)
                     THEN getRandomPhotoDifferentFrom(bird, excludePhotoUrl)
                     ELSE getRandomPhoto(bird)
    IN  {IF imageUrl = NullStr
         THEN createTextOption(bird, hideLabel)
         ELSE [id |-> bird.id, imageUrl |-> imageUrl, label |-> bird.commonName,
               type |-> "text-image", hideLabel |-> hideLabel] : imageUrl \in imageUrls}

\* hideLabel is never undefined here (createMixedOption defaults it to false),
\* so "hideLabel !== undefined ? hideLabel : true" is hideLabel
createImageOnlyOption(bird, excludePhotoUrl, hideLabel) ==
    LET imageUrls == IF Truthy(excludePhotoUrl)
                     THEN getRandomPhotoDifferentFrom(bird, excludePhotoUrl)
                     ELSE getRandomPhoto(bird)
    IN  {IF imageUrl = NullStr
         THEN createTextOption(bird, hideLabel)
         ELSE [id |-> bird.id, imageUrl |-> imageUrl, label |-> bird.commonName,
               type |-> "image-only", hideLabel |-> hideLabel] : imageUrl \in imageUrls}

createAudioOnlyOption(bird, recording, excludeAudioUrl, hideLabel) ==
    LET audioRecordings ==
            IF Truthy(excludeAudioUrl)
            THEN IF recording = NULL
                 THEN {NULL}
                 ELSE getRandomRecordingDifferentFrom(bird, excludeAudioUrl)
            ELSE {recording}
    IN  {IF Truthy(excludeAudioUrl) /\ audioRecording = NULL
         THEN createTextOption(bird, hideLabel)
         ELSE [id |-> bird.id,
               audioUrl |-> IF audioRecording # NULL
                            THEN getRecordingAudioUrl(audioRecording)
                            ELSE Undefined,
               label |-> bird.commonName, type |-> "audio-only",
               hideLabel |-> hideLabel] : audioRecording \in audioRecordings}

\* params: bird, type, recording, excludePhotoUrl, excludeAudioUrl and an
\* optional hideLabel (default false)
createMixedOption(params) ==
    LET hideLabel == IF "hideLabel" \in DOMAIN params THEN params.hideLabel ELSE FALSE
    IN  CASE params.type = "text" ->
               {createTextOption(params.bird, hideLabel)}
          [] params.type = "text-image" ->
               createTextImageOption(params.bird, params.excludePhotoUrl, hideLabel)
          [] params.type = "image-only" ->
               createImageOnlyOption(params.bird, params.excludePhotoUrl, hideLabel)
          [] params.type = "audio-only" ->
               createAudioOnlyOption(params.bird, params.recording,
                                     params.excludeAudioUrl, hideLabel)

-----------------------------------------------------------------------------
(* questionGenerator/options/createAnswerOptions.ts *)

\* all sequences that take their i-th element from choices[i]
RECURSIVE ProductSeq(_)
ProductSeq(choices) ==
    IF Len(choices) = 0
    THEN {<<>>}
    ELSE {Append(front, last) :
              front \in ProductSeq(SubSeq(choices, 1, Len(choices) - 1)),
              last \in choices[Len(choices)]}

\* the result of a loop that builds one option per bird and returns null as
\* soon as one bird yields null: NULL, or Some(a shuffle of the options)
ShuffledOrNull(perBird) ==
    UNION {IF \E i \in 1..Len(options) : options[i] = NULL
           THEN {NULL}
           ELSE {Some(shuffled) : shuffled \in shuffleArray(options)} :
               options \in ProductSeq(perBird)}

\* one iteration of the loop of createTextOptions
TextOptionFor(bird) == {[id |-> bird.id, label |-> bird.commonName, type |-> "text"]}

createTextOptions(allBirds) ==
    ShuffledOrNull([i \in 1..Len(allBirds) |-> TextOptionFor(allBirds[i])])

\* one iteration of the loop of createPhotoOptions: the option, or NULL
PhotoOptionFor(bird, correctBird, excludePhotoUrl) ==
    LET imageUrls == IF bird.id = correctBird.id /\ Truthy(excludePhotoUrl)
                     THEN getRandomPhotoDifferentFrom(bird, excludePhotoUrl)
                     ELSE getRandomPhoto(bird)
    IN  {IF ~Truthy(imageUrl)
         THEN NULL
         ELSE [id |-> bird.id, imageUrl |-> imageUrl, label |-> bird.commonName,
               type |-> "image-only", hideLabel |-> TRUE] : imageUrl \in imageUrls}

createPhotoOptions(allBirds, correctBird, excludePhotoUrl) ==
    ShuffledOrNull([i \in 1..Len(allBirds) |->
                       PhotoOptionFor(allBirds[i], correctBird, excludePhotoUrl)])

\* one iteration of the loop of createAudioOptions: the option, or NULL
AudioOptionFor(bird, correctBird, excludeAudioUrl) ==
    UNION {IF recording = NULL
           THEN {NULL}
           ELSE LET used == IF bird.id = correctBird.id /\ Truthy(excludeAudioUrl)
                            THEN getRandomRecordingDifferentFrom(bird, excludeAudioUrl)
                            ELSE {recording}
                IN  {IF r = NULL
                     THEN NULL
                     ELSE [id |-> bird.id, audioUrl |-> getRecordingAudioUrl(r),
                           label |-> bird.commonName, type |-> "audio-only",
                           hideLabel |-> TRUE] : r \in used} :
               recording \in getRandomRecording(bird)}

createAudioOptions(allBirds, correctBird, excludeAudioUrl) ==
    ShuffledOrNull([i \in 1..Len(allBirds) |->
                       AudioOptionFor(allBirds[i], correctBird, excludeAudioUrl)])

\* one iteration of the loop of createMixedOptions
MixedOptionFor(bird, correctBird, excludePhotoUrl, excludeAudioUrl, answerTypes) ==
    LET isCorrectBird == bird.id = correctBird.id
    IN  UNION {UNION {createMixedOption(
                          [bird |-> bird, type |-> randomType, recording |-> recording,
                           excludePhotoUrl |-> IF isCorrectBird THEN excludePhotoUrl
                                               ELSE Undefined,
                           excludeAudioUrl |-> IF isCorrectBird THEN excludeAudioUrl
                                               ELSE Undefined]) :
                          recording \in getRandomRecording(bird)} :
                   randomType \in Range(answerTypes)}

createMixedOptions(allBirds, correctBird, excludePhotoUrl, excludeAudioUrl, isNameToMediaQuestion) ==
    LET answerTypes == IF isNameToMediaQuestion THEN NAME_TO_MEDIA_ANSWER_TYPES
                       ELSE MIXED_ANSWER_TYPES
    IN  ShuffledOrNull([i \in 1..Len(allBirds) |->
                           MixedOptionFor(allBirds[i], correctBird, excludePhotoUrl,
                                          excludeAudioUrl, answerTypes)])

\* the option createAnswerOptions builds for one bird of allBirds, or NULL
OptionFor(answerFormat, bird, params) ==
    CASE answerFormat = "text" -> TextOptionFor(bird)
      [] answerFormat = "photo" ->
           PhotoOptionFor(bird, params.correctBird, params.excludePhotoUrl)
      [] answerFormat = "audio" ->
           AudioOptionFor(bird, params.correctBird, params.excludeAudioUrl)
      [] answerFormat = "mixed" ->
           MixedOptionFor(bird, params.correctBird, params.excludePhotoUrl,
                          params.excludeAudioUrl,
                          IF params.isNameToMediaQuestion THEN NAME_TO_MEDIA_ANSWER_TYPES
                          ELSE MIXED_ANSWER_TYPES)
      [] OTHER -> {NULL}

\* params: correctBird, wrongBirds, excludePhotoUrl, excludeAudioUrl,
\* isNameToMediaQuestion
createAnswerOptions(answerFormat, params) ==
    LET allBirds == <<params.correctBird>> \o params.wrongBirds
    IN  CASE answerFormat = "text" -> createTextOptions(allBirds)
          [] answerFormat = "photo" ->
               createPhotoOptions(allBirds, params.correctBird, params.excludePhotoUrl)
          [] answerFormat = "audio" ->
               createAudioOptions(allBirds, params.correctBird, params.excludeAudioUrl)
          [] answerFormat = "mixed" ->
               createMixedOptions(allBirds, params.correctBird, params.excludePhotoUrl,
                                  params.excludeAudioUrl, params.isNameToMediaQuestion)
          [] OTHER -> {NULL}

-----------------------------------------------------------------------------
(* questionGenerator/generators *)

(***************************************************************************)
(* Every generator first selects the correct bird and the prompt media     *)
(* (its "head": the question without options, the array the wrong birds    *)
(* are drawn from and the exclusions), then draws the wrong birds, builds  *)
(* the options and returns the question.  A head is NULL when the          *)
(* generator returns null before it draws wrong birds.                     *)
(***************************************************************************)

QuestionHead(question, wrongFrom, excludePhotoUrl, excludeAudioUrl, isNameToMediaQuestion) ==
    [question |-> question, wrongFrom |-> wrongFrom,
     excludePhotoUrl |-> excludePhotoUrl, excludeAudioUrl |-> excludeAudioUrl,
     isNameToMediaQuestion |-> isNameToMediaQuestion]

\* the arguments of createAnswerOptions for a head and its wrong birds
OptionParams(head, wrongBirds) ==
    [correctBird |-> head.question.bird, wrongBirds |-> wrongBirds,
     excludePhotoUrl |-> head.excludePhotoUrl, excludeAudioUrl |-> head.excludeAudioUrl,
     isNameToMediaQuestion |-> head.isNameToMediaQuestion]

\* the tail shared by the generators: wrong birds, options, the question
QuestionsOfHead(head) ==
    UNION {{IF options = NULL THEN NULL
            ELSE [head.question EXCEPT !.options = options.some] :
                options \in createAnswerOptions(head.question.answerFormat,
                                                OptionParams(head, wrongBirds))} :
               wrongBirds \in getWrongAnswers(head.wrongFrom, head.question.bird, 3)}

QuestionsOfHeads(heads) ==
    UNION {IF head = NULL THEN {NULL} ELSE QuestionsOfHead(head) : head \in heads}

\* the generator asking for more species with photos than a question needs
PhotoToNameHeadsNeedingSpare(birds, answerFormat) ==
    IF Len(birds) < MIN_BIRDS_FOR_QUESTION THEN {NULL}
    ELSE LET birdsWithPhotos == filterBirdsWithPhotos(birds)
         IN  IF Len(birdsWithPhotos) <= MIN_BIRDS_FOR_QUESTION THEN {NULL}
             ELSE UNION {{QuestionHead([mode |-> "mixed", questionType |-> "photo-to-name",
                                answerFormat |-> answerFormat, bird |-> correctBird,
                                questionText |-> "What bird is this?",
                                correctAnswer |-> correctBird.id,
                                options |-> <<>>,
                                mediaUrl |-> photoUrl, mediaType |-> "photo"],
                               birds, photoUrl, Undefined, FALSE) :
                              photoUrl \in getRandomPhoto(correctBird)} :
                             correctBird \in Range(birdsWithPhotos)}

PhotoToNameHeads(birds, answerFormat) ==
    IF Len(birds) < MIN_BIRDS_FOR_QUESTION THEN {NULL}
    ELSE LET birdsWithPhotos == filterBirdsWithPhotos(birds)
         IN  IF Len(birdsWithPhotos) < 1 THEN {NULL}
             ELSE UNION {{QuestionHead([mode |-> "mixed", questionType |-> "photo-to-name",
                                answerFormat |-> answerFormat, bird |-> correctBird,
                                questionText |-> "What bird is this?",
                                correctAnswer |-> correctBird.id,
                                options |-> <<>>,
                                mediaUrl |-> photoUrl, mediaType |-> "photo"],
                               birds, photoUrl, Undefined, FALSE) :
                              photoUrl \in getRandomPhoto(correctBird)} :
                             correctBird \in Range(birdsWithPhotos)}

generatePhotoToNameQuestion(birds, answerFormat) ==
    QuestionsOfHeads(PhotoToNameHeads(birds, answerFormat))

AudioToNameHeads(birds, answerFormat) ==
    IF Len(birds) < MIN_BIRDS_FOR_QUESTION THEN {NULL}
    ELSE LET birdsWithAudio == filterBirdsWithRecordings(birds)
         IN  IF Len(birdsWithAudio) < 1 THEN {NULL}
             ELSE UNION {{IF recording = NULL THEN NULL
                          ELSE QuestionHead([mode |-> "mixed", questionType |-> "audio-to-name",
                                     answerFormat |-> answerFormat, bird |-> correctBird,
                                     recording |-> recording,
                                     questionText |-> "Which bird makes this sound?",
                                     correctAnswer |-> correctBird.id,
                                     options |-> <<>>,
                                     mediaUrl |-> getRecordingAudioUrl(recording),
                                     mediaType |-> "audio"],
                                    birds, Undefined, getRecordingAudioUrl(recording),
                                    FALSE) :
                              recording \in getRandomRecording(correctBird)} :
                             correctBird \in Range(birdsWithAudio)}

generateAudioToNameQuestion(birds, answerFormat) ==
    QuestionsOfHeads(AudioToNameHeads(birds, answerFormat))

PhotoAudioToNameHeads(birds, answerFormat) ==
    IF Len(birds) < MIN_BIRDS_FOR_QUESTION THEN {NULL}
    ELSE LET birdsWithMedia == filterBirdsWithBothMedia(birds)
         IN  IF Len(birdsWithMedia) < 1 THEN {NULL}
             ELSE UNION {UNION {IF recording = NULL THEN {NULL}
                          ELSE {QuestionHead([mode |-> "mixed",
                                      questionType |-> "photo-audio-to-name",
                                      answerFormat |-> answerFormat, bird |-> correctBird,
                                      recording |-> recording,
                                      questionText |-> "What bird is this?",
                                      correctAnswer |-> correctBird.id,
                                      options |-> <<>>,
                                      mediaUrl |-> photoUrl, mediaType |-> "photo",
                                      secondaryMediaUrl |-> getRecordingAudioUrl(recording),
                                      secondaryMediaType |-> "audio"],
                                     birds, photoUrl, getRecordingAudioUrl(recording),
                                     FALSE) :
                                    photoUrl \in getRandomPhoto(correctBird)} :
                              recording \in getRandomRecording(correctBird)} :
                             correctBird \in Range(birdsWithMedia)}

generatePhotoAudioToNameQuestion(birds, answerFormat) ==
    QuestionsOfHeads(PhotoAudioToNameHeads(birds, answerFormat))

NameToMediaQuestionText(answerFormat) ==
    CASE answerFormat = "photo" -> "Which photo shows the..."
      [] answerFormat = "audio" -> "Which sound belongs to the..."
      [] OTHER -> "Which answer shows the..."

\* the generator without its rejection of the text answer format
NameToMediaHeadsAcceptingText(birds, answerFormat) ==
    IF Len(birds) < MIN_BIRDS_FOR_QUESTION THEN {NULL}
    ELSE LET validBirds == filterBirdsByAnswerFormat(birds, answerFormat)
         IN  IF Len(validBirds) < MIN_BIRDS_FOR_QUESTION THEN {NULL}
             ELSE {QuestionHead([mode |-> "mixed", questionType |-> "name-to-media",
                         answerFormat |-> answerFormat, bird |-> correctBird,
                         questionText |-> NameToMediaQuestionText(answerFormat),
                         correctAnswer |-> correctBird.id,
                         options |-> <<>>],
                        validBirds, Undefined, Undefined, TRUE) :
                       correctBird \in Range(validBirds)}

NameToMediaHeads(birds, answerFormat) ==
    IF Len(birds) < MIN_BIRDS_FOR_QUESTION THEN {NULL}
    ELSE IF answerFormat = "text" THEN {NULL}
    ELSE LET validBirds == filterBirdsByAnswerFormat(birds, answerFormat)
         IN  IF Len(validBirds) < MIN_BIRDS_FOR_QUESTION THEN {NULL}
             ELSE {QuestionHead([mode |-> "mixed", questionType |-> "name-to-media",
                         answerFormat |-> answerFormat, bird |-> correctBird,
                         questionText |-> NameToMediaQuestionText(answerFormat),
                         correctAnswer |-> correctBird.id,
                         options |-> <<>>],
                        validBirds, Undefined, Undefined, TRUE) :
                       correctBird \in Range(validBirds)}

generateNameToMediaQuestion(birds, answerFormat) ==
    QuestionsOfHeads(NameToMediaHeads(birds, answerFormat))

\* the mixed generator tagging its questions with the type it was picked for
MixedHeadsTaggedMixed(birds, answerFormat) ==
    {IF head = NULL THEN NULL ELSE [head EXCEPT !.question.questionType = "mixed"] :
         head \in PhotoToNameHeads(birds, answerFormat) \cup
                  AudioToNameHeads(birds, answerFormat)}

MixedHeads(birds, answerFormat) ==
    UNION {IF questionModality = "photo"
           THEN PhotoToNameHeads(birds, answerFormat)
           ELSE AudioToNameHeads(birds, answerFormat) :
               questionModality \in Range(QUESTION_MODALITIES)}

generateMixedQuestion(birds, answerFormat) ==
    UNION {IF questionModality = "photo"
           THEN generatePhotoToNameQuestion(birds, answerFormat)
           ELSE generateAudioToNameQuestion(birds, answerFormat) :
               questionModality \in Range(QUESTION_MODALITIES)}

-----------------------------------------------------------------------------
(* questionGenerator/index.ts: generateQuestion *)

\* the values array[Math.floor(Math.random() * array.length)] can take
RandomItemOf(array) == IF Len(array) = 0 THEN {Undefined} ELSE Range(array)

\* the generator throws a TypeError: its media filter reads .length of the
\* photos or recordings array of every species, and a malformed species (here:
\* one that lacks both arrays) has none
GeneratorThrows(questionType, answerFormat, birds) ==
    LET photosThrow == \E i \in 1..Len(birds) : "photos" \notin DOMAIN birds[i]
        recordingsThrow == \E i \in 1..Len(birds) : "recordings" \notin DOMAIN birds[i]
    IN  /\ Len(birds) >= MIN_BIRDS_FOR_QUESTION
        /\ CASE questionType \in {"photo-to-name", "photo-audio-to-name"} -> photosThrow
              [] questionType = "audio-to-name" -> recordingsThrow
              [] questionType = "mixed" -> photosThrow /\ recordingsThrow
              [] questionType = "name-to-media" ->
                   \/ answerFormat = "photo" /\ photosThrow
                   \/ answerFormat = "audio" /\ recordingsThrow
              [] OTHER -> FALSE

\* the switch on questionType, up to the head of the generator it calls
HeadsByType(questionType, answerFormat, birds) ==
    CASE questionType = "photo-to-name" -> PhotoToNameHeads(birds, answerFormat)
      [] questionType = "audio-to-name" -> AudioToNameHeads(birds, answerFormat)
      [] questionType = "photo-audio-to-name" -> PhotoAudioToNameHeads(birds, answerFormat)
      [] questionType = "name-to-media" -> NameToMediaHeads(birds, answerFormat)
      [] questionType = "mixed" -> MixedHeads(birds, answerFormat)
      [] OTHER -> {NULL}

\* the switch on questionType: the possible results of one attempt
GenerateByType(questionType, answerFormat, birds) ==
    CASE questionType = "photo-to-name" -> generatePhotoToNameQuestion(birds, answerFormat)
      [] questionType = "audio-to-name" -> generateAudioToNameQuestion(birds, answerFormat)
      [] questionType = "photo-audio-to-name" ->
           generatePhotoAudioToNameQuestion(birds, answerFormat)
      [] questionType = "name-to-media" -> generateNameToMediaQuestion(birds, answerFormat)
      [] questionType = "mixed" -> generateMixedQuestion(birds, answerFormat)
      [] OTHER -> {NULL}

\* the possible results of one iteration of the while loop
AttemptOutcomes(birds, settings) ==
    UNION {IF GeneratorThrows(questionType, answerFormat, birds)
           THEN {NULL}
           ELSE GenerateByType(questionType, answerFormat, birds) :
               questionType \in RandomItemOf(settings.enabledQuestionTypes),
               answerFormat \in RandomItemOf(settings.enabledAnswerFormats)}

\* the while loop from the given value of attempts on
RECURSIVE RetryLoop(_, _)
RetryLoop(outcomes, n) ==
    IF n >= MAX_GENERATION_ATTEMPTS
    THEN {NULL}
    ELSE (outcomes \ {NULL}) \cup (IF NULL \in outcomes THEN RetryLoop(outcomes, n + 1) ELSE {})

\* the possible return values of generateQuestion(birds, settings)
generateQuestion(birds, settings) ==
    IF Len(birds) < MIN_BIRDS_FOR_QUESTION
    THEN {NULL}
    ELSE RetryLoop(AttemptOutcomes(birds, settings), 0)

-----------------------------------------------------------------------------
(* The species pools and settings the model draws from *)

\* a pool of species 1..n, species i with np[i] photos and nr[i] recordings
Pool(np, nr) == [i \in 1..Len(np) |-> Bird(i, np[i], nr[i])]

\* fewer species than a question needs
PoolSmall == Pool(<<1, 1, 1>>, <<1, 1, 1>>)

\* four species with exactly one photo and one recording each
PoolSingle == Pool(<<1, 1, 1, 1>>, <<1, 1, 1, 1>>)

\* five species, none has a recording
PoolNoAudio == Pool(<<MaxPhotos, 1, 1, 1, 1>>, <<0, 0, 0, 0, 0>>)

\* media is sparse: one rich species, the others lack photos, recordings or both
PoolSparse == Pool(<<MaxPhotos, 1, 0, 0>>, <<MaxRecordings, 0, 1, 0>>)

\* one rich species, the others have no media at all
PoolLean == Pool(<<MaxPhotos, 0, 0, 0>>, <<MaxRecordings, 0, 0, 0>>)

GenPools == {PoolSmall, PoolSingle, PoolNoAudio, PoolSparse}

\* a malformed species record: the photos and recordings arrays are missing
MalformedBird(i) == [id |-> "b" \o ToString(i), commonName |-> "Bird " \o ToString(i)]

\* three species with a photo and a recording each and a malformed species
PoolMalformed == Append(Pool(<<1, 1, 1>>, <<1, 1, 1>>), MalformedBird(4))

Settings(types, formats) ==
    [enabledQuestionTypes |-> types, enabledAnswerFormats |-> formats,
     selectedRegion |-> "missouri"]

DEFAULT_SETTINGS == Settings(<<"mixed">>, <<"mixed">>)

\* the (pool, settings) pairs generateQuestion is run on: every pool with
\* every question type and every uniform answer format, the lean pool with the
\* mixed answer format, the malformed pool with two question types and text
\* answers, and two settings with several enabled entries
GenCases ==
    {<<pool, Settings(<<t>>, <<f>>)>> :
         pool \in GenPools, t \in QuestionTypes, f \in AnswerFormats \ {"mixed"}}
    \cup {<<PoolLean, Settings(<<t>>, <<"mixed">>)>> : t \in QuestionTypes}
    \cup {<<PoolMalformed, Settings(<<t>>, <<"text">>)>> :
              t \in {"photo-to-name", "audio-to-name"}}
    \cup {<<PoolSingle, Settings(<<"photo-to-name", "name-to-media">>, <<"text", "photo">>)>>,
          <<PoolSparse, Settings(<<"audio-to-name", "mixed">>, <<"audio", "text">>)>>}

-----------------------------------------------------------------------------
(* generateQuestion step by step: genPc is the position inside the call *)

GenIdle ==
    /\ genBirds = <<>>
    /\ genSettings = DEFAULT_SETTINGS
    /\ genPc = "idle"
    /\ attempts = 0
    /\ calls = 0
    /\ genHead = NULL
    /\ genWrong = <<>>
    /\ genOptions = <<>>
    /\ genResult = NULL

\* no function is called on its own
CallIdle ==
    /\ fnCall = NULL
    /\ fnResult = NULL

\* the stats objects are not followed by reference: every state carries the
\* numbers one invocation of the reducer per action computes
ReactIdle ==
    /\ sharedStats = NULL
    /\ reducerCalls = 1

\* the hooks and the dialog outside QuizProvider are not mounted
HooksIdle ==
    /\ hookSettings = NULL
    /\ storedSettings = NULL
    /\ localSettings = NULL
    /\ hookProgress = NULL

\* entry: the pool-size floor
GenEnter ==
    /\ genPc = "idle"
    /\ genBirds # <<>>
    /\ IF Len(genBirds) < MIN_BIRDS_FOR_QUESTION
       THEN genPc' = "done"
       ELSE genPc' = "loop"
    /\ UNCHANGED <<genBirds, genSettings, attempts, calls, genHead, genWrong,
                   genOptions, genResult>>
    /\ UNCHANGED quizVars
    /\ UNCHANGED callVars
    /\ UNCHANGED reactVars
    /\ UNCHANGED fetchVars
    /\ UNCHANGED hookVars

\* the attempt failed: attempts++ and back to the loop condition
FailAttempt ==
    /\ attempts' = attempts + 1
    /\ genPc' = "loop"
    /\ genHead' = NULL
    /\ genWrong' = <<>>
    /\ genOptions' = <<>>
    /\ UNCHANGED genResult

\* a loop iteration up to the generator's choice of bird and prompt media;
\* an error thrown by the generator is caught and logged, the attempt failed
GenPick ==
    /\ genPc = "loop"
    /\ attempts < MAX_GENERATION_ATTEMPTS
    /\ \E questionType \in RandomItemOf(genSettings.enabledQuestionTypes),
          answerFormat \in RandomItemOf(genSettings.enabledAnswerFormats) :
         /\ calls' = IF questionType \in QuestionTypes THEN calls + 1 ELSE calls
         /\ IF GeneratorThrows(questionType, answerFormat, genBirds)
            THEN FailAttempt
            ELSE \E head \in HeadsByType(questionType, answerFormat, genBirds) :
                   IF head = NULL
                   THEN FailAttempt
                   ELSE /\ genHead' = head
                        /\ genPc' = "wrong"
                        /\ UNCHANGED <<attempts, genWrong, genOptions, genResult>>
    /\ UNCHANGED <<genBirds, genSettings>>
    /\ UNCHANGED quizVars
    /\ UNCHANGED callVars
    /\ UNCHANGED reactVars
    /\ UNCHANGED fetchVars
    /\ UNCHANGED hookVars

\* the generator's call of getWrongAnswers
GenWrongAnswers ==
    /\ genPc = "wrong"
    /\ genWrong' \in getWrongAnswers(genHead.wrongFrom, genHead.question.bird, 3)
    /\ genPc' = "options"
    /\ UNCHANGED <<genBirds, genSettings, attempts, calls, genHead, genOptions, genResult>>
    /\ UNCHANGED quizVars
    /\ UNCHANGED callVars
    /\ UNCHANGED reactVars
    /\ UNCHANGED fetchVars
    /\ UNCHANGED hookVars

\* one iteration of the loop over allBirds in createAnswerOptions
GenOption ==
    /\ genPc = "options"
    /\ LET params == OptionParams(genHead, genWrong)
           allBirds == <<params.correctBird>> \o params.wrongBirds
       IN  /\ Len(genOptions) < Len(allBirds)
           /\ \E option \in OptionFor(genHead.question.answerFormat,
                                      allBirds[Len(genOptions) + 1], params) :
                IF option = NULL
                THEN FailAttempt
                ELSE /\ genOptions' = Append(genOptions, option)
                     /\ genPc' = IF Len(genOptions) + 1 = Len(allBirds)
                                 THEN "shuffle" ELSE "options"
                     /\ UNCHANGED <<attempts, genHead, genWrong, genResult>>
    /\ UNCHANGED <<genBirds, genSettings, calls>>
    /\ UNCHANGED quizVars
    /\ UNCHANGED callVars
    /\ UNCHANGED reactVars
    /\ UNCHANGED fetchVars
    /\ UNCHANGED hookVars

\* shuffleArray(options), the generator's return and generateQuestion's return
GenShuffle ==
    /\ genPc = "shuffle"
    /\ \E shuffled \in shuffleArray(genOptions) :
         genResult' = [genHead.question EXCEPT !.options = shuffled]
    /\ genPc' = "done"
    /\ genHead' = NULL
    /\ genWrong' = <<>>
    /\ genOptions' = <<>>
    /\ UNCHANGED <<genBirds, genSettings, attempts, calls>>
    /\ UNCHANGED quizVars
    /\ UNCHANGED callVars
    /\ UNCHANGED reactVars
    /\ UNCHANGED fetchVars
    /\ UNCHANGED hookVars

\* loop exit after the last failed attempt
GenExhausted ==
    /\ genPc = "loop"
    /\ attempts >= MAX_GENERATION_ATTEMPTS
    /\ genPc' = "done"
    /\ genResult' = NULL
    /\ UNCHANGED <<genBirds, genSettings, attempts, calls, genHead, genWrong, genOptions>>
    /\ UNCHANGED quizVars
    /\ UNCHANGED callVars
    /\ UNCHANGED reactVars
    /\ UNCHANGED fetchVars
    /\ UNCHANGED hookVars

-----------------------------------------------------------------------------
(* utils/scoring.ts *)

(***************************************************************************)
(* (correct / total) * 100 is IEEE 754 double arithmetic: the quotient is  *)
(* rounded to 53 significant bits (ties to even), the product is rounded   *)
(* again, and Math.round rounds the product to the nearest integer, ties   *)
(* up.  A significand is a sequence of five digits: the leading digit and  *)
(* four digits in base 2^13.                                               *)
(***************************************************************************)

DigitBase == 8192

\* the carries of digits 2..i moved up: each of them ends below DigitBase
RECURSIVE CarryFrom(_, _)
CarryFrom(digits, i) ==
    IF i < 2
    THEN digits
    ELSE CarryFrom([digits EXCEPT ![i] = @ % DigitBase,
                                  ![i - 1] = @ + (digits[i] \div DigitBase)], i - 1)

\* the least e with n * 2^e >= total
RECURSIVE QuotientExponent(_, _)
QuotientExponent(n, total) ==
    IF n >= total THEN 0 ELSE 1 + QuotientExponent(2 * n, total)

\* the double correct / total for 0 < correct < total < 2^17: its value is
\* digits * 2^(-exponent - 52)
DoubleQuotient(correct, total) ==
    LET exponent == QuotientExponent(correct, total)
        r0 == correct * 2^exponent - total
        d1 == (r0 * DigitBase) \div total
        r1 == (r0 * DigitBase) % total
        d2 == (r1 * DigitBase) \div total
        r2 == (r1 * DigitBase) % total
        d3 == (r2 * DigitBase) \div total
        r3 == (r2 * DigitBase) % total
        d4 == (r3 * DigitBase) \div total
        r4 == (r3 * DigitBase) % total
        roundUp == 2 * r4 > total \/ (2 * r4 = total /\ d4 % 2 = 1)
    IN  [exponent |-> exponent,
         digits |-> CarryFrom(<<1, d1, d2, d3, d4 + (IF roundUp THEN 1 ELSE 0)>>, 5)]

\* Math.round((correct / total) * 100) for 0 <= correct <= total < 2^17
calculateAccuracy(correct, total) ==
    IF total = 0 THEN 0
    ELSE IF correct = 0 THEN 0
    ELSE IF correct = total THEN 100
    ELSE LET quotient == DoubleQuotient(correct, total)
             product == CarryFrom([i \in 1..5 |-> 100 * quotient.digits[i]], 5)
             dropped == IF product[1] < 128 THEN 6 ELSE 7
             carriesUp == /\ product[2] = DigitBase - 1
                          /\ product[3] = DigitBase - 1
                          /\ product[4] = DigitBase - 1
                          /\ product[5] >= DigitBase - 2^(dropped - 1)
             whole == product[1] + (IF carriesUp THEN 1 ELSE 0)
         IN  (whole + 2^(quotient.exponent - 1)) \div 2^(quotient.exponent)

-----------------------------------------------------------------------------
(* reducers/quizReducer.ts *)

DEFAULT_PROGRESS ==
    [overallStats |-> [totalQuestions |-> 0, correct |-> 0, accuracy |-> 0, lastPlayed |-> 0],
     modeStats |-> [correct |-> 0, total |-> 0],
     speciesStats |-> <<>>,
     rollingStats |-> [answers |-> <<>>, currentStreak |-> 0, maxStreak |-> 0,
                       totalAnswers |-> 0]]

initialQuizState ==
    [birds |-> <<>>,
     birdsLoading |-> TRUE,
     birdsError |-> NullStr,
     currentQuestion |-> NULL,
     answered |-> FALSE,
     selectedAnswer |-> NullStr,
     isCorrect |-> NULL,
     progress |-> DEFAULT_PROGRESS,
     settings |-> DEFAULT_SETTINGS,
     currentRegion |-> NULL,
     availableRegions |-> <<>>,
     regionsLoading |-> TRUE,
     regionsError |-> NullStr,
     settingsOpen |-> FALSE]

\* the eviction test with > in place of >=
EvictOldestLate(answers) ==
    IF Len(answers) > ROLLING_BUFFER_SIZE THEN Tail(answers) ELSE answers

\* the rolling buffer before the push: the oldest answer leaves a full buffer
EvictOldest(answers) ==
    IF Len(answers) >= ROLLING_BUFFER_SIZE THEN Tail(answers) ELSE answers

\* the streak kept, not reset, on an incorrect answer
NextStreakNoReset(correct, currentStreak) ==
    IF correct THEN currentStreak + 1 ELSE currentStreak

\* newStreak
NextStreak(correct, currentStreak) == IF correct THEN currentStreak + 1 ELSE 0

\* a recorder that keeps only the correct answers
RecordAnswerSkippingWrong(progress, payload) ==
    IF payload.correct
    THEN [progress EXCEPT !.rollingStats.totalAnswers = @ + 1,
                          !.rollingStats.answers = Append(@, payload)]
    ELSE progress

\* case 'RECORD_ANSWER': the new value of state.progress
RecordAnswer(progress, payload) ==
    LET speciesId == payload.speciesId
        correct == payload.correct
        timestamp == payload.timestamp
        inc == IF correct THEN 1 ELSE 0
        totalQuestions == progress.overallStats.totalQuestions + 1
        overallCorrect == progress.overallStats.correct + inc
        modeTotal == progress.modeStats.total + 1
        modeCorrect == progress.modeStats.correct + inc
        oldSpecies == IF speciesId \in DOMAIN progress.speciesStats
                      THEN progress.speciesStats[speciesId]
                      ELSE [correct |-> 0, total |-> 0]
        newSpecies == [correct |-> oldSpecies.correct + inc,
                       total |-> oldSpecies.total + 1,
                       lastSeen |-> timestamp]
        oldAnswers == progress.rollingStats.answers
        newAnswers == Append(EvictOldest(oldAnswers), [timestamp |-> timestamp, speciesId |-> speciesId,
                                    correct |-> correct,
                                    questionType |-> payload.questionType,
                                    answerFormat |-> payload.answerFormat])
        newStreak == NextStreak(correct, progress.rollingStats.currentStreak)
        newMaxStreak == Max(newStreak, progress.rollingStats.maxStreak)
    IN  [overallStats |-> [totalQuestions |-> totalQuestions,
                           correct |-> overallCorrect,
                           accuracy |-> calculateAccuracy(overallCorrect, totalQuestions),
                           lastPlayed |-> timestamp],
         modeStats |-> [correct |-> modeCorrect, total |-> modeTotal,
                        accuracy |-> calculateAccuracy(modeCorrect, modeTotal)],
         speciesStats |-> [id \in DOMAIN progress.speciesStats \cup {speciesId} |->
                              IF id = speciesId THEN newSpecies
                              ELSE progress.speciesStats[id]],
         rollingStats |-> [answers |-> newAnswers,
                           currentStreak |-> newStreak,
                           maxStreak |-> newMaxStreak,
                           totalAnswers |-> progress.rollingStats.totalAnswers + 1]]

\* a reset that forgets to carry the progress over
ResetQuizDroppingProgress(s) ==
    [initialQuizState EXCEPT !.birds = s.birds,
                             !.settings = s.settings,
                             !.currentRegion = s.currentRegion,
                             !.availableRegions = s.availableRegions]

\* a reset that toggles the settings modal instead of closing it
ResetQuizTogglingModal(s) ==
    [initialQuizState EXCEPT !.birds = s.birds,
                             !.progress = s.progress,
                             !.settings = s.settings,
                             !.currentRegion = s.currentRegion,
                             !.availableRegions = s.availableRegions,
                             !.settingsOpen = ~s.settingsOpen]

\* a reset that keeps the selected answer
ResetQuizKeepingSelection(s) ==
    [initialQuizState EXCEPT !.birds = s.birds,
                             !.progress = s.progress,
                             !.settings = s.settings,
                             !.currentRegion = s.currentRegion,
                             !.availableRegions = s.availableRegions,
                             !.selectedAnswer = s.selectedAnswer]

\* case 'RESET_QUIZ'
ResetQuiz(s) ==
    [initialQuizState EXCEPT !.birds = s.birds,
                             !.progress = s.progress,
                             !.settings = s.settings,
                             !.currentRegion = s.currentRegion,
                             !.availableRegions = s.availableRegions]

\* the set of states quizReducer(s, action) can return
quizReducer(s, action) ==
    CASE action.type = "LOAD_BIRDS_START" ->
           {[s EXCEPT !.birdsLoading = TRUE, !.birdsError = NullStr]}
      [] action.type = "LOAD_BIRDS_SUCCESS" ->
           {[s EXCEPT !.birds = action.payload, !.birdsLoading = FALSE,
                      !.birdsError = NullStr]}
      [] action.type = "LOAD_BIRDS_ERROR" ->
           {[s EXCEPT !.birdsLoading = FALSE, !.birdsError = action.payload]}
      [] action.type \in {"START_QUIZ", "NEXT_QUESTION"} ->
           {[s EXCEPT !.currentQuestion = question, !.answered = FALSE,
                      !.selectedAnswer = NullStr, !.isCorrect = NULL] :
                question \in generateQuestion(action.payload, s.settings)}
      [] action.type = "GENERATE_QUESTION" ->
           {[s EXCEPT !.currentQuestion = question, !.answered = FALSE,
                      !.selectedAnswer = NullStr, !.isCorrect = NULL] :
                question \in generateQuestion(action.payload.birds, s.settings)}
      [] action.type = "SET_QUESTION" ->
           {[s EXCEPT !.currentQuestion = action.payload, !.answered = FALSE,
                      !.selectedAnswer = NullStr, !.isCorrect = NULL]}
      [] action.type = "ANSWER_QUESTION" ->
           {[s EXCEPT !.answered = TRUE, !.selectedAnswer = action.payload.answerId,
                      !.isCorrect = Some(action.payload.isCorrect)]}
      [] action.type = "RECORD_ANSWER" ->
           {[s EXCEPT !.progress = RecordAnswer(s.progress, action.payload)]}
      [] action.type = "UPDATE_SETTINGS" ->
           LET newSettings == action.payload
               shouldRegenerate == s.currentQuestion # NULL
               newQuestions == IF shouldRegenerate
                               THEN generateQuestion(s.birds, newSettings)
                               ELSE {s.currentQuestion}
           IN  {[s EXCEPT !.settings = newSettings, !.currentQuestion = newQuestion,
                          !.answered = FALSE, !.selectedAnswer = NullStr,
                          !.isCorrect = NULL] : newQuestion \in newQuestions}
      [] action.type = "TOGGLE_SETTINGS_MODAL" ->
           {[s EXCEPT !.settingsOpen = IF "payload" \in DOMAIN action
                                       THEN action.payload ELSE ~s.settingsOpen]}
      [] action.type = "RESET_QUIZ" -> {ResetQuiz(s)}
      [] action.type = "CHANGE_REGION" ->
           {[s EXCEPT !.currentRegion = action.payload, !.currentQuestion = NULL,
                      !.answered = FALSE, !.selectedAnswer = NullStr, !.isCorrect = NULL]}
      [] OTHER -> {s}

(* selectors/quizSelectors.ts *)

selectIsQuizReady(s) == Len(s.birds) > 0 /\ ~s.birdsLoading /\ ~Truthy(s.birdsError)

selectIsLoading(s) == s.birdsLoading

-----------------------------------------------------------------------------
(* contexts/QuizContext: the provider's state and its action creators *)

\* the species pool the quiz runs on: only the first species has a photo,
\* no species has a recording
QuizPool == Pool(<<1, 0, 0, 0>>, <<0, 0, 0, 0>>)

\* what a load of the dataset can deliver
Datasets == {<<>>, QuizPool}

\* the settings a user stores: the second is infeasible for QuizPool
QuizSettingsSet ==
    {Settings(<<"photo-to-name">>, <<"text">>), Settings(<<"audio-to-name">>, <<"text">>)}

\* 1 when the transition from s to t installs a question, else 0
Installed(s, t) == IF t.currentQuestion # NULL THEN 1 ELSE 0

\* loadBirds, up to the await
LoadBirds ==
    /\ pendingLoads < MaxPendingLoads
    /\ state' \in quizReducer(state, [type |-> "LOAD_BIRDS_START"])
    /\ pendingLoads' = pendingLoads + 1
    /\ UNCHANGED <<presented, clock, history>>
    /\ UNCHANGED genVars
    /\ UNCHANGED callVars
    /\ UNCHANGED reactVars
    /\ UNCHANGED fetchVars
    /\ UNCHANGED hookVars

\* a resolved load that stores the species and does not start the quiz
LoadBirdsResolvedWithoutStart ==
    /\ pendingLoads > 0
    /\ presented < MaxPresented
    /\ \E birds \in Datasets :
         state' \in quizReducer(state, [type |-> "LOAD_BIRDS_SUCCESS", payload |-> birds])
    /\ pendingLoads' = pendingLoads - 1
    /\ UNCHANGED <<presented, clock, history>>
    /\ UNCHANGED genVars
    /\ UNCHANGED callVars
    /\ UNCHANGED reactVars
    /\ UNCHANGED fetchVars
    /\ UNCHANGED hookVars

\* loadBirds, after the await: the fetch resolved
LoadBirdsResolved ==
    /\ pendingLoads > 0
    /\ presented < MaxPresented
    /\ \E birds \in Datasets :
         \E loaded \in quizReducer(state, [type |-> "LOAD_BIRDS_SUCCESS", payload |-> birds]) :
            IF Len(birds) > 0
            THEN /\ state' \in quizReducer(loaded, [type |-> "START_QUIZ", payload |-> birds])
                 /\ presented' = presented + Installed(loaded, state')
            ELSE /\ state' = loaded
                 /\ UNCHANGED presented
    /\ pendingLoads' = pendingLoads - 1
    /\ UNCHANGED <<clock, history>>
    /\ UNCHANGED genVars
    /\ UNCHANGED callVars
    /\ UNCHANGED reactVars
    /\ UNCHANGED fetchVars
    /\ UNCHANGED hookVars

\* loadBirds, after the await: the fetch was rejected
LoadBirdsFailed ==
    /\ pendingLoads > 0
    /\ state' \in quizReducer(state, [type |-> "LOAD_BIRDS_ERROR",
                                      payload |-> "Failed to load birds"])
    /\ pendingLoads' = pendingLoads - 1
    /\ UNCHANGED <<presented, clock, history>>
    /\ UNCHANGED genVars
    /\ UNCHANGED callVars
    /\ UNCHANGED reactVars
    /\ UNCHANGED fetchVars
    /\ UNCHANGED hookVars

StartQuiz ==
    /\ Len(state.birds) > 0
    /\ presented < MaxPresented
    /\ state' \in quizReducer(state, [type |-> "START_QUIZ", payload |-> state.birds])
    /\ presented' = presented + Installed(state, state')
    /\ UNCHANGED <<clock, history, pendingLoads>>
    /\ UNCHANGED genVars
    /\ UNCHANGED callVars
    /\ UNCHANGED reactVars
    /\ UNCHANGED fetchVars
    /\ UNCHANGED hookVars

\* the payload with every answer recorded as correct
AnswerPayloadAlwaysCorrect(question, isCorrect, timestamp) ==
    [timestamp |-> timestamp, speciesId |-> question.bird.id, correct |-> TRUE,
     questionType |-> question.questionType, answerFormat |-> question.answerFormat]

\* the payload answerQuestion records for the current question
AnswerPayload(question, isCorrect, timestamp) ==
    [timestamp |-> timestamp, speciesId |-> question.bird.id, correct |-> isCorrect,
     questionType |-> question.questionType, answerFormat |-> question.answerFormat]

AnswerQuestion(answerId) ==
    /\ state.currentQuestion # NULL
    /\ Len(history) < MaxQuizAnswers
    /\ LET isCorrect == answerId = state.currentQuestion.correctAnswer
           payload == AnswerPayload(state.currentQuestion, isCorrect, clock)
       IN  /\ \E answered \in quizReducer(state,
                                  [type |-> "ANSWER_QUESTION",
                                   payload |-> [answerId |-> answerId,
                                                isCorrect |-> isCorrect]]) :
                 state' \in quizReducer(answered, [type |-> "RECORD_ANSWER",
                                                   payload |-> payload])
           /\ history' = Append(history, payload)
    /\ clock' = clock + 1
    /\ UNCHANGED <<presented, pendingLoads>>
    /\ UNCHANGED genVars
    /\ UNCHANGED callVars
    /\ UNCHANGED reactVars
    /\ UNCHANGED fetchVars
    /\ UNCHANGED hookVars

\* answerQuestion without a current question: the early return
AnswerQuestionIgnored ==
    /\ state.currentQuestion = NULL
    /\ UNCHANGED vars

\* a next question that keeps the previous question when generation fails
NextQuestionKeepingStale ==
    /\ presented < MaxPresented
    /\ \E next \in quizReducer(state, [type |-> "NEXT_QUESTION", payload |-> state.birds]) :
         state' = IF next.currentQuestion = NULL
                  THEN [next EXCEPT !.currentQuestion = state.currentQuestion]
                  ELSE next
    /\ presented' = presented + Installed(state, state')
    /\ UNCHANGED <<clock, history, pendingLoads>>
    /\ UNCHANGED genVars
    /\ UNCHANGED callVars
    /\ UNCHANGED reactVars
    /\ UNCHANGED fetchVars
    /\ UNCHANGED hookVars

NextQuestion ==
    /\ presented < MaxPresented
    /\ state' \in quizReducer(state, [type |-> "NEXT_QUESTION", payload |-> state.birds])
    /\ presented' = presented + Installed(state, state')
    /\ UNCHANGED <<clock, history, pendingLoads>>
    /\ UNCHANGED genVars
    /\ UNCHANGED callVars
    /\ UNCHANGED reactVars
    /\ UNCHANGED fetchVars
    /\ UNCHANGED hookVars

\* a settings update that keeps the question that is shown
UpdateSettingsKeepingQuestion(settings) ==
    /\ presented < MaxPresented
    /\ \E next \in quizReducer(state, [type |-> "UPDATE_SETTINGS", payload |-> settings]) :
         state' = [next EXCEPT !.currentQuestion = state.currentQuestion]
    /\ UNCHANGED <<presented, clock, history, pendingLoads>>
    /\ UNCHANGED genVars
    /\ UNCHANGED callVars
    /\ UNCHANGED reactVars
    /\ UNCHANGED fetchVars
    /\ UNCHANGED hookVars

UpdateSettings(settings) ==
    /\ presented < MaxPresented
    /\ state' \in quizReducer(state, [type |-> "UPDATE_SETTINGS", payload |-> settings])
    /\ presented' = presented + (IF state.currentQuestion # NULL
                                 THEN Installed(state, state') ELSE 0)
    /\ UNCHANGED <<clock, history, pendingLoads>>
    /\ UNCHANGED genVars
    /\ UNCHANGED callVars
    /\ UNCHANGED reactVars
    /\ UNCHANGED fetchVars
    /\ UNCHANGED hookVars

ToggleSettingsModal ==
    /\ \E action \in {[type |-> "TOGGLE_SETTINGS_MODAL"],
                      [type |-> "TOGGLE_SETTINGS_MODAL", payload |-> TRUE],
                      [type |-> "TOGGLE_SETTINGS_MODAL", payload |-> FALSE]} :
         state' \in quizReducer(state, action)
    /\ UNCHANGED <<presented, clock, history, pendingLoads>>
    /\ UNCHANGED genVars
    /\ UNCHANGED callVars
    /\ UNCHANGED reactVars
    /\ UNCHANGED fetchVars
    /\ UNCHANGED hookVars

ResetQuizAction ==
    /\ state' \in quizReducer(state, [type |-> "RESET_QUIZ"])
    /\ UNCHANGED <<presented, clock, history, pendingLoads>>
    /\ UNCHANGED genVars
    /\ UNCHANGED callVars
    /\ UNCHANGED reactVars
    /\ UNCHANGED fetchVars
    /\ UNCHANGED hookVars

\* the ids a user can pick: the options of the current question
OptionIds(question) == {question.options[i].id : i \in 1..Len(question.options)}

\* the state built by loadInitialState, with the settings found in storage
Init ==
    /\ \E stored \in QuizSettingsSet :
         state = [initialQuizState EXCEPT !.settings = stored]
    /\ presented = 0
    /\ clock = 1
    /\ history = <<>>
    /\ pendingLoads = 0
    /\ GenIdle
    /\ CallIdle
    /\ ReactIdle
    /\ inFlight = <<>>
    /\ HooksIdle

Next ==
    \/ LoadBirds
    \/ LoadBirdsResolved
    \/ LoadBirdsFailed
    \/ StartQuiz
    \/ \E answerId \in (IF state.currentQuestion # NULL
                        THEN OptionIds(state.currentQuestion) ELSE {}) :
          AnswerQuestion(answerId)
    \/ AnswerQuestionIgnored
    \/ NextQuestion
    \/ \E settings \in QuizSettingsSet : UpdateSettings(settings)
    \/ ToggleSettingsModal
    \/ ResetQuizAction

Spec == Init /\ [][Next]_vars

-----------------------------------------------------------------------------
(* The question generator on its own *)

\* a call of generateQuestion on one of the given (pool, settings) pairs
InitGenOn(cases) ==
    /\ state = initialQuizState
    /\ presented = 0
    /\ clock = 1
    /\ history = <<>>
    /\ pendingLoads = 0
    /\ \E case \in cases :
         /\ genBirds = case[1]
         /\ genSettings = case[2]
    /\ genPc = "idle"
    /\ attempts = 0
    /\ calls = 0
    /\ genHead = NULL
    /\ genWrong = <<>>
    /\ genOptions = <<>>
    /\ genResult = NULL
    /\ CallIdle
    /\ ReactIdle
    /\ inFlight = <<>>
    /\ HooksIdle

InitGen == InitGenOn(GenCases)

NextGen ==
    \/ GenEnter
    \/ GenPick
    \/ GenWrongAnswers
    \/ GenOption
    \/ GenShuffle
    \/ GenExhausted

SpecGen == InitGen /\ [][NextGen]_vars

\* the cases in which an attempt can fail: the uniform answer formats, on
\* the pools of at most 4 species and on the pool without recordings when
\* only audio questions are enabled
RetryCases ==
    {case \in GenCases :
         /\ "mixed" \notin Range(case[2].enabledAnswerFormats)
         /\ \/ Len(case[1]) <= MIN_BIRDS_FOR_QUESTION
            \/ case[2].enabledQuestionTypes = <<"audio-to-name">>}

InitRetry == InitGenOn(RetryCases)

\* the retry loop: a call of generateQuestion runs to completion
SpecRetry == InitRetry /\ [][NextGen]_vars /\ WF_vars(NextGen)

-----------------------------------------------------------------------------
(* The progress tracker on its own: a run of RECORD_ANSWER actions *)

ProgressSpecies == {"b1", "b2"}

\* a correct answer about the first species
PlainAnswer(payload) == payload.correct /\ payload.speciesId = "b1"

OtherAnswers(h) == Cardinality({i \in 1..Len(h) : ~PlainAnswer(h[i])})

DispatchRecordAnswer ==
    /\ Len(history) < MaxAnswers
    /\ \E speciesId \in ProgressSpecies, correct \in BOOLEAN :
         LET payload == [timestamp |-> clock, speciesId |-> speciesId,
                         correct |-> correct, questionType |-> "photo-to-name",
                         answerFormat |-> "text"]
         IN  /\ OtherAnswers(Append(history, payload)) <= MaxOther
             /\ state' \in quizReducer(state, [type |-> "RECORD_ANSWER",
                                               payload |-> payload])
             /\ history' = Append(history, payload)
    /\ clock' = clock + 1
    /\ UNCHANGED <<presented, pendingLoads>>
    /\ UNCHANGED genVars
    /\ UNCHANGED callVars
    /\ UNCHANGED reactVars
    /\ UNCHANGED fetchVars
    /\ UNCHANGED hookVars

InitProgress ==
    /\ state = initialQuizState
    /\ presented = 0
    /\ clock = 1
    /\ history = <<>>
    /\ pendingLoads = 0
    /\ GenIdle
    /\ CallIdle
    /\ ReactIdle
    /\ inFlight = <<>>
    /\ HooksIdle

NextProgress == DispatchRecordAnswer

SpecProgress == InitProgress /\ [][NextProgress]_vars

-----------------------------------------------------------------------------
(* The progress tracker under React: RECORD_ANSWER copies state.progress   *)
(* one level deep, so the copy refers to the overallStats, modeStats and   *)
(* speciesStats objects of the previous state and updates them in place;   *)
(* only rollingStats is replaced by a new object.                          *)

\* the three objects a Progress value refers to
StatsOf(progress) ==
    [overallStats |-> progress.overallStats, modeStats |-> progress.modeStats,
     speciesStats |-> progress.speciesStats]

\* a Progress value as it reads now: its nested stats are the shared objects,
\* its rollingStats is its own
ProgressThrough(objects, progress) ==
    [progress EXCEPT !.overallStats = objects.overallStats,
                     !.modeStats = objects.modeStats,
                     !.speciesStats = objects.speciesStats]

\* one invocation of case 'RECORD_ANSWER' on a state holding progress: the
\* Progress it returns; the shared objects afterwards are the StatsOf it
RecordAnswerInPlace(objects, progress, payload) ==
    RecordAnswer(ProgressThrough(objects, progress), payload)

\* n invocations of the reducer on the same previous state and action
RECURSIVE ReduceRecordAnswer(_, _, _, _)
ReduceRecordAnswer(objects, progress, payload, n) ==
    IF n <= 1
    THEN RecordAnswerInPlace(objects, progress, payload)
    ELSE RecordAnswerInPlace(StatsOf(ReduceRecordAnswer(objects, progress, payload, n - 1)),
                             progress, payload)

\* React invokes the reducer once per action in a production build and twice
\* under <StrictMode> in a development build
ReducerCallCounts == {1, 2}

\* the answers of earlier sessions behind the Progress found in localStorage:
\* 39 answers, the first 22 of them correct
EarlierAnswers ==
    [i \in 1..39 |-> [timestamp |-> i, speciesId |-> IF i % 2 = 1 THEN "b1" ELSE "b2",
                      correct |-> i <= 22, questionType |-> "photo-to-name",
                      answerFormat |-> "text"]]

\* the Progress those answers leave in localStorage
EarlierProgress ==
    [overallStats |-> [totalQuestions |-> 39, correct |-> 22,
                       accuracy |-> calculateAccuracy(22, 39), lastPlayed |-> 39],
     modeStats |-> [correct |-> 22, total |-> 39, accuracy |-> calculateAccuracy(22, 39)],
     speciesStats |-> [id \in {"b1", "b2"} |->
                          IF id = "b1" THEN [correct |-> 11, total |-> 20, lastSeen |-> 39]
                          ELSE [correct |-> 11, total |-> 19, lastSeen |-> 38]],
     rollingStats |-> [answers |-> SubSeq(EarlierAnswers, 20, 39), currentStreak |-> 0,
                       maxStreak |-> 22, totalAnswers |-> 39]]

\* what loadInitialState puts in state.progress: DEFAULT_PROGRESS when
\* nothing is stored, else the parsed Progress of the earlier sessions
StoredProgresses == {DEFAULT_PROGRESS, EarlierProgress}

\* dispatch({ type: 'RECORD_ANSWER', payload }) and the render that applies it
DispatchRecordAnswerShared ==
    /\ sharedStats # NULL
    /\ Len(history) < MaxSharedAnswers
    /\ \E speciesId \in ProgressSpecies, correct \in BOOLEAN :
         LET payload == [timestamp |-> clock, speciesId |-> speciesId,
                         correct |-> correct, questionType |-> "photo-to-name",
                         answerFormat |-> "text"]
             progress == ReduceRecordAnswer(sharedStats, state.progress, payload,
                                            reducerCalls)
         IN  /\ state' = [state EXCEPT !.progress = progress]
             /\ sharedStats' = StatsOf(progress)
             /\ history' = Append(history, payload)
    /\ clock' = clock + 1
    /\ UNCHANGED <<presented, pendingLoads, reducerCalls>>
    /\ UNCHANGED genVars
    /\ UNCHANGED callVars
    /\ UNCHANGED hookVars
    /\ UNCHANGED fetchVars

InitShared ==
    /\ \E stored \in StoredProgresses :
         /\ state = [initialQuizState EXCEPT !.progress = stored]
         /\ sharedStats = StatsOf(stored)
    /\ reducerCalls \in ReducerCallCounts
    /\ presented = 0
    /\ clock = 100
    /\ history = <<>>
    /\ pendingLoads = 0
    /\ GenIdle
    /\ CallIdle
    /\ HooksIdle
    /\ inFlight = <<>>

NextShared == DispatchRecordAnswerShared

SpecShared == InitShared /\ [][NextShared]_vars

-----------------------------------------------------------------------------
(* The question round on its own: species are loaded, a question is shown *)

\* only the first species has media: two photos and a recording
RoundPool == Pool(<<2, 0, 0, 0>>, <<1, 0, 0, 0>>)

\* the settings found in storage when the page loads: generation always
\* succeeds on RoundPool, the first species has a recording
RoundStoredSettings == Settings(<<"audio-to-name">>, <<"text">>)

\* photo answers: generation succeeds on RoundPool, the first species has a
\* second photo for its option
PhotoSettings == Settings(<<"photo-to-name">>, <<"photo">>)

\* generation never succeeds
NeverSettings == Settings(<<"name-to-media">>, <<"text">>)

\* the settings a user saves in the settings dialog
RoundSettingsSet == {PhotoSettings, NeverSettings}

\* the states of the provider once loadBirds has resolved with RoundPool and
\* START_QUIZ has installed a question
RoundShown(stored) ==
    LET loaded == quizReducer([initialQuizState EXCEPT !.settings = stored],
                              [type |-> "LOAD_BIRDS_SUCCESS", payload |-> RoundPool])
        started == UNION {quizReducer(s, [type |-> "START_QUIZ", payload |-> RoundPool]) :
                              s \in loaded}
    IN  {s \in started : s.currentQuestion # NULL}

\* a later loadBirds that resolved with an empty dataset: LOAD_BIRDS_SUCCESS
\* without START_QUIZ, the question stays
RoundEmptied(s) ==
    UNION {quizReducer(l, [type |-> "LOAD_BIRDS_SUCCESS", payload |-> <<>>]) :
               l \in quizReducer(s, [type |-> "LOAD_BIRDS_START"])}

\* answerQuestion(answerId) in state s at time timestamp: the two dispatches
RoundAnswered(s, answerId, timestamp) ==
    LET isCorrect == answerId = s.currentQuestion.correctAnswer
    IN  UNION {quizReducer(a, [type |-> "RECORD_ANSWER",
                               payload |-> AnswerPayload(s.currentQuestion, isCorrect,
                                                         timestamp)]) :
                   a \in quizReducer(s, [type |-> "ANSWER_QUESTION",
                                         payload |-> [answerId |-> answerId,
                                                      isCorrect |-> isCorrect]])}

\* a question is shown, unanswered or answered, and the species are loaded or
\* were emptied by a reload
InitRound ==
    /\ \E shown \in RoundShown(RoundStoredSettings) :
            \/ /\ state \in {shown} \cup RoundEmptied(shown)
               /\ history = <<>>
               /\ clock = 1
            \/ \E answerId \in OptionIds(shown.currentQuestion) :
                 /\ state \in RoundAnswered(shown, answerId, 1)
                 /\ history = <<AnswerPayload(shown.currentQuestion,
                                              answerId = shown.currentQuestion.correctAnswer,
                                              1)>>
                 /\ clock = 2
    /\ presented = 0
    /\ pendingLoads = 0
    /\ GenIdle
    /\ CallIdle
    /\ ReactIdle
    /\ inFlight = <<>>
    /\ HooksIdle

NextRound ==
    \/ NextQuestion
    \/ \E settings \in RoundSettingsSet : UpdateSettings(settings)

SpecRound == InitRound /\ [][NextRound]_vars

-----------------------------------------------------------------------------
(* Exported functions called on their own *)

\* the URLs of the photos and of the recordings of a species
PhotoUrlsOf(bird) == {getPhotoUrl(bird.photos[k]) : k \in 1..Len(bird.photos)}

AudioUrlsOf(bird) ==
    {getRecordingAudioUrl(bird.recordings[k]) : k \in 1..Len(bird.recordings)}

\* the species the functions are called on: every number of photos and
\* recordings up to the bounds
CallBirds == {Bird(1, np, nr) : np \in 0..MaxPhotos, nr \in 0..MaxRecordings}

\* the calls createMixedOption(params): every option type, a recording of the
\* species or null, no exclusion or the URL of a photo / recording, and
\* hideLabel absent or true
MixedOptionCalls ==
    UNION {{[fn |-> "createMixedOption", params |-> params] :
               params \in
                   {[bird |-> bird, type |-> type, recording |-> recording,
                     excludePhotoUrl |-> excludePhotoUrl,
                     excludeAudioUrl |-> excludeAudioUrl] :
                        type \in Range(MIXED_ANSWER_TYPES),
                        recording \in Range(bird.recordings) \cup {NULL},
                        excludePhotoUrl \in
                            {Undefined} \cup PhotoUrlsOf(Bird(1, MaxPhotos, 0)),
                        excludeAudioUrl \in
                            {Undefined} \cup AudioUrlsOf(Bird(1, 0, MaxRecordings))}
                   \cup
                   {[bird |-> bird, type |-> type, recording |-> NULL,
                     excludePhotoUrl |-> excludePhotoUrl,
                     excludeAudioUrl |-> Undefined, hideLabel |-> TRUE] :
                        type \in Range(MIXED_ANSWER_TYPES),
                        excludePhotoUrl \in
                            {Undefined} \cup PhotoUrlsOf(Bird(1, MaxPhotos, 0))}} :
               bird \in CallBirds}

CallCreateMixedOption ==
    /\ fnCall # NULL
    /\ fnCall.fn = "createMixedOption"
    /\ fnResult = NULL
    /\ fnResult' \in {Some(option) : option \in createMixedOption(fnCall.params)}
    /\ UNCHANGED fnCall
    /\ UNCHANGED quizVars
    /\ UNCHANGED genVars
    /\ UNCHANGED reactVars
    /\ UNCHANGED fetchVars
    /\ UNCHANGED hookVars

\* the calls getWrongAnswers(allBirds, correctBird, 3): every pool of 1 to
\* MaxCallPool species with distinct ids and every correct species of it
WrongAnswersCalls ==
    UNION {{[fn |-> "getWrongAnswers", allBirds |-> allBirds,
             correctBird |-> correctBird, count |-> WRONG_ANSWERS_COUNT] :
                correctBird \in Range(allBirds)} :
               allBirds \in {Pool([i \in 1..n |-> 0], [i \in 1..n |-> 0]) :
                                 n \in 1..MaxCallPool}}

CallGetWrongAnswers ==
    /\ fnCall # NULL
    /\ fnCall.fn = "getWrongAnswers"
    /\ fnResult = NULL
    /\ fnResult' \in {Some(wrongBirds) :
                          wrongBirds \in getWrongAnswers(fnCall.allBirds, fnCall.correctBird,
                                                         fnCall.count)}
    /\ UNCHANGED fnCall
    /\ UNCHANGED quizVars
    /\ UNCHANGED genVars
    /\ UNCHANGED reactVars
    /\ UNCHANGED fetchVars
    /\ UNCHANGED hookVars

\* the calls getRandomPhotoDifferentFrom(bird, excludeUrl) and
\* getRandomRecordingDifferentFrom(bird, excludeUrl): every species of
\* CallBirds and one whose items all share a file, with the URL of an item of
\* the species or of another species excluded
DifferentFromCalls ==
    LET birds == CallBirds \cup
                     {[Bird(1, 2, 2) EXCEPT !.photos[2] = BirdPhoto(1, 1),
                                            !.recordings[2] = BirdRecording(1, 1)]}
    IN  {[fn |-> "getRandomPhotoDifferentFrom", bird |-> bird, excludeUrl |-> excludeUrl] :
            bird \in birds,
            excludeUrl \in PhotoUrlsOf(Bird(1, MaxPhotos, 0)) \cup PhotoUrlsOf(Bird(2, 1, 0))}
        \cup
        {[fn |-> "getRandomRecordingDifferentFrom", bird |-> bird, excludeUrl |-> excludeUrl] :
            bird \in birds,
            excludeUrl \in AudioUrlsOf(Bird(1, 0, MaxRecordings)) \cup AudioUrlsOf(Bird(2, 0, 1))}

CallGetRandomPhotoDifferentFrom ==
    /\ fnCall # NULL
    /\ fnCall.fn = "getRandomPhotoDifferentFrom"
    /\ fnResult = NULL
    /\ fnResult' \in {Some(photoUrl) :
                          photoUrl \in getRandomPhotoDifferentFrom(fnCall.bird, fnCall.excludeUrl)}
    /\ UNCHANGED fnCall
    /\ UNCHANGED quizVars
    /\ UNCHANGED genVars
    /\ UNCHANGED reactVars
    /\ UNCHANGED fetchVars
    /\ UNCHANGED hookVars

CallGetRandomRecordingDifferentFrom ==
    /\ fnCall # NULL
    /\ fnCall.fn = "getRandomRecordingDifferentFrom"
    /\ fnResult = NULL
    /\ fnResult' \in {Some(recording) :
                          recording \in getRandomRecordingDifferentFrom(fnCall.bird,
                                                                        fnCall.excludeUrl)}
    /\ UNCHANGED fnCall
    /\ UNCHANGED quizVars
    /\ UNCHANGED genVars
    /\ UNCHANGED reactVars
    /\ UNCHANGED fetchVars
    /\ UNCHANGED hookVars

\* utils/selectRandomMedia: the photo and the recording shown with the species
\* info; a field whose value is undefined is absent
selectRandomMedia(bird, usedMedia) ==
    LET availablePhotos ==
            SelectSeq(bird.photos, LAMBDA photo : photo.cached # usedMedia.photoUrl)
        availableRecordings ==
            SelectSeq(bird.recordings,
                      LAMBDA recording : recording.cachedAudio # usedMedia.audioUrl)
        selectedPhotos ==
            IF Len(availablePhotos) > 0
            THEN {[photo |-> availablePhotos[randomIndex]] :
                      randomIndex \in 1..Len(availablePhotos)}
            ELSE IF Len(bird.photos) > 0
                 THEN {[photo |-> bird.photos[1]]}
                 ELSE {[field \in {} |-> TRUE]}
        selectedRecordings ==
            IF Len(availableRecordings) > 0
            THEN {[recording |-> availableRecordings[randomIndex]] :
                      randomIndex \in 1..Len(availableRecordings)}
            ELSE IF Len(bird.recordings) > 0
                 THEN {[recording |-> bird.recordings[1]]}
                 ELSE {[field \in {} |-> TRUE]}
    IN  {selectedPhoto @@ selectedRecording :
             selectedPhoto \in selectedPhotos, selectedRecording \in selectedRecordings}

\* the calls selectRandomMedia(bird, usedMedia): every species of CallBirds,
\* photoUrl and audioUrl undefined, the cached key of an item, or the URL
\* QuestionCard takes from the question
SelectMediaCalls ==
    {[fn |-> "selectRandomMedia", bird |-> bird,
      usedMedia |-> [photoUrl |-> photoUrl, audioUrl |-> audioUrl]] :
         bird \in CallBirds,
         photoUrl \in {Undefined} \cup PhotoUrlsOf(Bird(1, 1, 0))
                         \cup {BirdPhoto(1, k).cached : k \in 1..MaxPhotos},
         audioUrl \in {Undefined} \cup AudioUrlsOf(Bird(1, 0, 1))
                         \cup {BirdRecording(1, k).cachedAudio : k \in 1..MaxRecordings}}

CallSelectRandomMedia ==
    /\ fnCall # NULL
    /\ fnCall.fn = "selectRandomMedia"
    /\ fnResult = NULL
    /\ fnResult' \in {Some(selected) :
                          selected \in selectRandomMedia(fnCall.bird, fnCall.usedMedia)}
    /\ UNCHANGED fnCall
    /\ UNCHANGED quizVars
    /\ UNCHANGED genVars
    /\ UNCHANGED reactVars
    /\ UNCHANGED fetchVars
    /\ UNCHANGED hookVars

InitCalls ==
    /\ state = initialQuizState
    /\ presented = 0
    /\ clock = 1
    /\ history = <<>>
    /\ pendingLoads = 0
    /\ GenIdle
    /\ fnCall \in MixedOptionCalls \cup WrongAnswersCalls \cup DifferentFromCalls
                  \cup SelectMediaCalls
    /\ fnResult = NULL
    /\ ReactIdle
    /\ inFlight = <<>>
    /\ HooksIdle

NextCalls ==
    \/ CallCreateMixedOption
    \/ CallGetWrongAnswers
    \/ CallGetRandomPhotoDifferentFrom
    \/ CallGetRandomRecordingDifferentFrom
    \/ CallSelectRandomMedia

SpecCalls == InitCalls /\ [][NextCalls]_vars

-----------------------------------------------------------------------------
(* contexts/QuizContext: loadBirds calls that overlap *)

\* how many times loadBirds is called in a run
MaxLoads == 2

\* what a fetch can deliver: in the first dataset only the first species has a
\* photo, in the second only the second species
LoadDatasets == {QuizPool, Pool(<<0, 1, 0, 0>>, <<0, 0, 0, 0>>)}

\* the loads whose fetch has not settled
PendingLoads == {i \in 1..Len(inFlight) : inFlight[i].status = "pending"}

\* loadBirds, up to the await
LoadBirdsStarts ==
    /\ Len(inFlight) < MaxLoads
    /\ state' \in quizReducer(state, [type |-> "LOAD_BIRDS_START"])
    /\ inFlight' = Append(inFlight, [status |-> "pending"])
    /\ pendingLoads' = pendingLoads + 1
    /\ UNCHANGED <<presented, clock, history>>
    /\ UNCHANGED genVars
    /\ UNCHANGED callVars
    /\ UNCHANGED reactVars
    /\ UNCHANGED hookVars

\* loadBirds, after the await: the fetch of one of the pending loads resolved
LoadBirdsResolves ==
    /\ \E i \in PendingLoads, birds \in LoadDatasets :
         /\ \E loaded \in quizReducer(state, [type |-> "LOAD_BIRDS_SUCCESS",
                                               payload |-> birds]) :
              IF Len(birds) > 0
              THEN state' \in quizReducer(loaded, [type |-> "START_QUIZ", payload |-> birds])
              ELSE state' = loaded
         /\ inFlight' = [inFlight EXCEPT ![i] = [status |-> "resolved", birds |-> birds]]
    /\ presented' = presented + Installed(state, state')
    /\ pendingLoads' = pendingLoads - 1
    /\ UNCHANGED <<clock, history>>
    /\ UNCHANGED genVars
    /\ UNCHANGED callVars
    /\ UNCHANGED reactVars
    /\ UNCHANGED hookVars

\* loadBirds, after the await: the fetch of one of the pending loads was
\* rejected
LoadBirdsFails ==
    /\ \E i \in PendingLoads :
         inFlight' = [inFlight EXCEPT ![i] = [status |-> "rejected"]]
    /\ state' \in quizReducer(state, [type |-> "LOAD_BIRDS_ERROR",
                                      payload |-> "Failed to load birds"])
    /\ pendingLoads' = pendingLoads - 1
    /\ UNCHANGED <<presented, clock, history>>
    /\ UNCHANGED genVars
    /\ UNCHANGED callVars
    /\ UNCHANGED reactVars
    /\ UNCHANGED hookVars

InitLoads ==
    /\ state = [initialQuizState EXCEPT !.settings = Settings(<<"photo-to-name">>, <<"text">>)]
    /\ presented = 0
    /\ clock = 1
    /\ history = <<>>
    /\ pendingLoads = 0
    /\ GenIdle
    /\ CallIdle
    /\ ReactIdle
    /\ HooksIdle
    /\ inFlight = <<>>

NextLoads ==
    \/ LoadBirdsStarts
    \/ LoadBirdsResolves
    \/ LoadBirdsFails

SpecLoads == InitLoads /\ [][NextLoads]_vars

-----------------------------------------------------------------------------
(* hooks/useProgress: the progress tracker of the hook, next to the reducer's *)

\* the updater recordAnswer hands to setProgress; now is the value of
\* new Date().toISOString() while it runs
recordAnswer(prev, speciesId, correct, questionType, answerFormat, now) ==
    LET inc == IF correct THEN 1 ELSE 0
        totalQuestions == prev.overallStats.totalQuestions + 1
        overallCorrect == prev.overallStats.correct + inc
        modeTotal == prev.modeStats.total + 1
        modeCorrect == prev.modeStats.correct + inc
        oldSpecies == IF speciesId \in DOMAIN prev.speciesStats
                      THEN prev.speciesStats[speciesId]
                      ELSE [correct |-> 0, total |-> 0]
        newAnswer == [timestamp |-> now, speciesId |-> speciesId, correct |-> correct,
                      questionType |-> questionType, answerFormat |-> answerFormat]
        pushed == Append(prev.rollingStats.answers, newAnswer)
        updatedAnswers == IF Len(pushed) > 20 THEN Tail(pushed) ELSE pushed
        newStreak == IF correct THEN prev.rollingStats.currentStreak + 1 ELSE 0
        maxStreak == Max(prev.rollingStats.maxStreak, newStreak)
    IN  [overallStats |-> [totalQuestions |-> totalQuestions,
                           correct |-> overallCorrect,
                           accuracy |-> calculateAccuracy(overallCorrect, totalQuestions),
                           lastPlayed |-> now],
         modeStats |-> [correct |-> modeCorrect, total |-> modeTotal,
                        accuracy |-> calculateAccuracy(modeCorrect, modeTotal)],
         speciesStats |-> [id \in DOMAIN prev.speciesStats \cup {speciesId} |->
                              IF id = speciesId
                              THEN [correct |-> oldSpecies.correct + inc,
                                    total |-> oldSpecies.total + 1,
                                    lastSeen |-> now]
                              ELSE prev.speciesStats[id]],
         rollingStats |-> [answers |-> updatedAnswers,
                           currentStreak |-> newStreak,
                           maxStreak |-> maxStreak,
                           totalAnswers |-> prev.rollingStats.totalAnswers + 1]]

\* the longest answer sequence fed to both trackers, and how many of its
\* answers may be other than a correct answer about the first species
MaxTrackerAnswers == 22

MaxTrackerOther == 2

\* the same answer, at the same instant, goes to both trackers: the reducer
\* gets RECORD_ANSWER, the hook a call of recordAnswer
RecordInBothTrackers ==
    /\ hookProgress # NULL
    /\ Len(history) < MaxTrackerAnswers
    /\ \E speciesId \in ProgressSpecies, correct \in BOOLEAN :
         LET payload == [timestamp |-> clock, speciesId |-> speciesId,
                         correct |-> correct, questionType |-> "photo-to-name",
                         answerFormat |-> "text"]
         IN  /\ OtherAnswers(Append(history, payload)) <= MaxTrackerOther
             /\ state' \in quizReducer(state, [type |-> "RECORD_ANSWER",
                                               payload |-> payload])
             /\ hookProgress' = recordAnswer(hookProgress, speciesId, correct,
                                             "photo-to-name", "text", clock)
             /\ history' = Append(history, payload)
    /\ clock' = clock + 1
    /\ UNCHANGED <<presented, pendingLoads>>
    /\ UNCHANGED <<hookSettings, storedSettings, localSettings>>
    /\ UNCHANGED genVars
    /\ UNCHANGED callVars
    /\ UNCHANGED reactVars
    /\ UNCHANGED fetchVars

\* both trackers start from the empty Progress
InitTrackers ==
    /\ state = initialQuizState
    /\ presented = 0
    /\ clock = 1
    /\ history = <<>>
    /\ pendingLoads = 0
    /\ GenIdle
    /\ CallIdle
    /\ ReactIdle
    /\ inFlight = <<>>
    /\ hookSettings = NULL
    /\ storedSettings = NULL
    /\ localSettings = NULL
    /\ hookProgress = DEFAULT_PROGRESS

SpecTrackers == InitTrackers /\ [][RecordInBothTrackers]_vars

-----------------------------------------------------------------------------
(* hooks/useQuizSettings.ts and components/QuizSettings.tsx: editing the
   settings *)

HOOK_DEFAULT_SETTINGS ==
    [enabledQuestionTypes |-> <<"photo-to-name", "audio-to-name", "photo-audio-to-name",
                                "name-to-media", "mixed">>,
     enabledAnswerFormats |-> <<"text", "photo", "audio", "mixed">>]

\* the useState initialiser: the stored settings when both arrays are
\* non-empty, else the defaults
loadStoredSettings(stored) ==
    IF /\ stored # NULL
       /\ Len(stored.some.enabledQuestionTypes) > 0
       /\ Len(stored.some.enabledAnswerFormats) > 0
    THEN stored.some
    ELSE HOOK_DEFAULT_SETTINGS

\* what localStorage holds when the page loads: nothing, settings with one
\* question type and one answer format, or settings without a question type
StoredSettingsInits ==
    {NULL,
     Some([enabledQuestionTypes |-> <<"mixed">>, enabledAnswerFormats |-> <<"text">>]),
     Some([enabledQuestionTypes |-> <<>>, enabledAnswerFormats |-> <<"text">>])}

\* the check boxes the user clicks
ToggledTypes == {"photo-to-name", "mixed"}

ToggledFormats == {"text"}

\* the settings updateSettings is called with besides those of the dialog
UpdateInputs ==
    {[enabledQuestionTypes |-> types, enabledAnswerFormats |-> formats] :
         types \in {<<>>, <<"audio-to-name">>}, formats \in {<<>>, <<"audio">>}}

\* the toggle that disables the last enabled question type as well
toggleQuestionTypeAllowingNone(prev, questionType) ==
    IF questionType \in Range(prev.enabledQuestionTypes)
    THEN [prev EXCEPT !.enabledQuestionTypes = SelectSeq(@, LAMBDA t : t # questionType)]
    ELSE [prev EXCEPT !.enabledQuestionTypes = Append(@, questionType)]

\* the updater toggleQuestionType hands to setSettings
toggleQuestionType(prev, questionType) ==
    IF questionType \in Range(prev.enabledQuestionTypes)
    THEN IF Len(prev.enabledQuestionTypes) = 1
         THEN prev
         ELSE [prev EXCEPT !.enabledQuestionTypes = SelectSeq(@, LAMBDA t : t # questionType)]
    ELSE [prev EXCEPT !.enabledQuestionTypes = Append(@, questionType)]

\* the updater toggleAnswerFormat hands to setSettings
toggleAnswerFormat(prev, answerFormat) ==
    IF answerFormat \in Range(prev.enabledAnswerFormats)
    THEN IF Len(prev.enabledAnswerFormats) = 1
         THEN prev
         ELSE [prev EXCEPT !.enabledAnswerFormats = SelectSeq(@, LAMBDA f : f # answerFormat)]
    ELSE [prev EXCEPT !.enabledAnswerFormats = Append(@, answerFormat)]

\* updateSettings(newSettings) with the hook holding settings and localStorage
\* holding stored: the settings and the item afterwards and the value
\* returned; localStorage.setItem stores the item or throws
updateSettingsOutcomes(settings, stored, newSettings) ==
    IF Len(newSettings.enabledQuestionTypes) = 0 \/ Len(newSettings.enabledAnswerFormats) = 0
    THEN {[settings |-> settings, stored |-> stored, result |-> FALSE]}
    ELSE {[settings |-> newSettings, stored |-> Some(newSettings), result |-> TRUE],
          [settings |-> newSettings, stored |-> stored, result |-> FALSE]}

updateSettings(newSettings) ==
    /\ hookSettings # NULL
    /\ \E outcome \in updateSettingsOutcomes(hookSettings, storedSettings, newSettings) :
         /\ hookSettings' = outcome.settings
         /\ storedSettings' = outcome.stored
         /\ fnResult' = Some(outcome.result)
    /\ fnCall' = [fn |-> "updateSettings", newSettings |-> newSettings]
    /\ UNCHANGED <<localSettings, hookProgress>>
    /\ UNCHANGED quizVars
    /\ UNCHANGED genVars
    /\ UNCHANGED reactVars
    /\ UNCHANGED fetchVars

HookToggleQuestionType ==
    /\ hookSettings # NULL
    /\ \E questionType \in ToggledTypes :
         hookSettings' = toggleQuestionType(hookSettings, questionType)
    /\ UNCHANGED <<storedSettings, localSettings, hookProgress>>
    /\ UNCHANGED quizVars
    /\ UNCHANGED genVars
    /\ UNCHANGED callVars
    /\ UNCHANGED reactVars
    /\ UNCHANGED fetchVars

HookToggleAnswerFormat ==
    /\ hookSettings # NULL
    /\ \E answerFormat \in ToggledFormats :
         hookSettings' = toggleAnswerFormat(hookSettings, answerFormat)
    /\ UNCHANGED <<storedSettings, localSettings, hookProgress>>
    /\ UNCHANGED quizVars
    /\ UNCHANGED genVars
    /\ UNCHANGED callVars
    /\ UNCHANGED reactVars
    /\ UNCHANGED fetchVars

\* the dialog opens: the effect copies the settings into localSettings
QuizSettingsOpen ==
    /\ hookSettings # NULL
    /\ localSettings' = hookSettings
    /\ UNCHANGED <<hookSettings, storedSettings, hookProgress>>
    /\ UNCHANGED quizVars
    /\ UNCHANGED genVars
    /\ UNCHANGED callVars
    /\ UNCHANGED reactVars
    /\ UNCHANGED fetchVars

\* a click on a question type check box of the dialog
QuizSettingsToggleQuestionType ==
    /\ localSettings # NULL
    /\ \E questionType \in ToggledTypes :
         LET enabled == questionType \in Range(localSettings.enabledQuestionTypes)
         IN  localSettings' =
                 IF enabled
                 THEN IF Len(localSettings.enabledQuestionTypes) = 1
                      THEN localSettings
                      ELSE [localSettings EXCEPT !.enabledQuestionTypes =
                                SelectSeq(@, LAMBDA t : t # questionType)]
                 ELSE [localSettings EXCEPT !.enabledQuestionTypes =
                           Append(@, questionType)]
    /\ UNCHANGED <<hookSettings, storedSettings, hookProgress>>
    /\ UNCHANGED quizVars
    /\ UNCHANGED genVars
    /\ UNCHANGED callVars
    /\ UNCHANGED reactVars
    /\ UNCHANGED fetchVars

\* a click on an answer format check box of the dialog
QuizSettingsToggleAnswerFormat ==
    /\ localSettings # NULL
    /\ \E answerFormat \in ToggledFormats :
         LET enabled == answerFormat \in Range(localSettings.enabledAnswerFormats)
         IN  localSettings' =
                 IF enabled
                 THEN IF Len(localSettings.enabledAnswerFormats) = 1
                      THEN localSettings
                      ELSE [localSettings EXCEPT !.enabledAnswerFormats =
                                SelectSeq(@, LAMBDA f : f # answerFormat)]
                 ELSE [localSettings EXCEPT !.enabledAnswerFormats =
                           Append(@, answerFormat)]
    /\ UNCHANGED <<hookSettings, storedSettings, hookProgress>>
    /\ UNCHANGED quizVars
    /\ UNCHANGED genVars
    /\ UNCHANGED callVars
    /\ UNCHANGED reactVars
    /\ UNCHANGED fetchVars

\* handleSave: onSave(localSettings) calls updateSettings
QuizSettingsSave ==
    /\ localSettings # NULL
    /\ updateSettings(localSettings)

InitSettings ==
    /\ state = initialQuizState
    /\ presented = 0
    /\ clock = 1
    /\ history = <<>>
    /\ pendingLoads = 0
    /\ GenIdle
    /\ CallIdle
    /\ ReactIdle
    /\ inFlight = <<>>
    /\ storedSettings \in StoredSettingsInits
    /\ hookSettings = loadStoredSettings(storedSettings)
    /\ localSettings = NULL
    /\ hookProgress = NULL

NextSettings ==
    \/ \E newSettings \in UpdateInputs : updateSettings(newSettings)
    \/ HookToggleQuestionType
    \/ HookToggleAnswerFormat
    \/ QuizSettingsOpen
    \/ QuizSettingsToggleQuestionType
    \/ QuizSettingsToggleAnswerFormat
    \/ QuizSettingsSave

SpecSettings == InitSettings /\ [][NextSettings]_vars

-----------------------------------------------------------------------------
(* Properties *)

HasField(r, f) == f \in DOMAIN r

DistinctIds(birds) ==
    \A i, j \in 1..Len(birds) : birds[i].id = birds[j].id => i = j

Returned == genPc = "done" /\ genResult # NULL

\* the prompt photo and the prompt audio of a question, when it has one
PromptPhotoUrls(q) ==
    IF HasField(q, "mediaType") /\ q.mediaType = "photo" THEN {q.mediaUrl} ELSE {}

PromptAudioUrls(q) ==
    (IF HasField(q, "mediaType") /\ q.mediaType = "audio" THEN {q.mediaUrl} ELSE {})
    \cup (IF HasField(q, "secondaryMediaType") /\ q.secondaryMediaType = "audio"
          THEN {q.secondaryMediaUrl} ELSE {})

CorrectOptions(q) ==
    {i \in 1..Len(q.options) : q.options[i].id = q.correctAnswer}

\* C1: a question returned by generateQuestion for a pool with pairwise
\* distinct ids has exactly 4 options, exactly one of which has the id
\* correctAnswer.
C1_OptionCorrectness ==
    (Returned /\ DistinctIds(genBirds)) =>
        /\ Len(genResult.options) = 4
        /\ Cardinality(CorrectOptions(genResult)) = 1

\* a question was returned for a pool in which the 3 wrong birds are a proper
\* choice among 4 candidates
C1_Witness == Returned /\ Len(genBirds) = 5 /\ DistinctIds(genBirds)

\* C2: in a returned photo-to-name, audio-to-name or photo-audio-to-name
\* question the correct option never carries the prompt photo as imageUrl nor
\* the prompt audio as audioUrl.
C2_NoMediaCollision ==
    (Returned /\ genResult.questionType \in
                    {"photo-to-name", "audio-to-name", "photo-audio-to-name"}) =>
        \A i \in CorrectOptions(genResult) :
            LET option == genResult.options[i]
            IN  /\ HasField(option, "imageUrl") =>
                       option.imageUrl \notin PromptPhotoUrls(genResult)
                /\ HasField(option, "audioUrl") =>
                       option.audioUrl \notin PromptAudioUrls(genResult)

\* a photo+audio question whose correct option shows another photo of the
\* correct species
C2_Witness ==
    /\ Returned
    /\ genResult.questionType = "photo-audio-to-name"
    /\ \E i \in CorrectOptions(genResult) :
         /\ HasField(genResult.options[i], "imageUrl")
         /\ genResult.options[i].imageUrl # "/placeholder-bird.jpg"

\* C3: answerQuestion is a no-op when the current question is already
\* answered or when there is no current question.
C3_AnswerIgnoredWhenAnswered ==
    [][(/\ (\E answerId \in {"b1", "b2", "b3", "b4"} : AnswerQuestion(answerId))
           \/ AnswerQuestionIgnored
        /\ (state.answered \/ state.currentQuestion = NULL))
       => /\ state'.answered = state.answered
          /\ state'.selectedAnswer = state.selectedAnswer
          /\ state'.isCorrect = state.isCorrect
          /\ state'.progress = state.progress]_vars

\* C4: each presented question contributes at most one answer record.
C4_OneRecordPerQuestion ==
    /\ state.progress.rollingStats.totalAnswers <= presented
    /\ state.progress.overallStats.totalQuestions <= presented

\* the bounds on attempts and generator calls of one generateQuestion call
C5_Bounded ==
    /\ attempts <= 10
    /\ calls <= 10
    /\ Returned => calls = attempts + 1
    /\ (genPc = "done" /\ genResult = NULL /\ Len(genBirds) >= 4) =>
           (attempts = 10 /\ calls = 10)

\* C5: generateQuestion terminates; it calls a type generator at most 10
\* times, returns the first non-null question without a further attempt and
\* returns null after exactly 10 failed attempts.
C5_RetryTermination == [](C5_Bounded) /\ <>(genPc = "done")

\* null was returned after 10 failed attempts on a pool without recordings
C5_Witness ==
    /\ genPc = "done"
    /\ genResult = NULL
    /\ attempts = 10
    /\ genBirds = PoolNoAudio
    /\ genSettings.enabledQuestionTypes = <<"audio-to-name">>

\* the last k elements of h
LastOf(h, k) == SubSeq(h, Len(h) - k + 1, Len(h))

\* C6: after n RECORD_ANSWER actions the rolling buffer holds exactly the last
\* min(n, 20) answer records in the order they were recorded.
C6_RollingBuffer ==
    /\ Len(state.progress.rollingStats.answers) <= 20
    /\ state.progress.rollingStats.answers = LastOf(history, Min(Len(history), 20))

\* 25 answers were recorded and the buffer starts with answer #6
C6_Witness ==
    /\ Len(history) = 25
    /\ Len(state.progress.rollingStats.answers) = 20
    /\ state.progress.rollingStats.answers[1] = history[6]
    /\ history[5] # history[6]

\* the number of consecutive correct answers at the end of h
RECURSIVE TrailingCorrect(_)
TrailingCorrect(h) ==
    IF Len(h) = 0 \/ ~h[Len(h)].correct
    THEN 0
    ELSE 1 + TrailingCorrect(SubSeq(h, 1, Len(h) - 1))

\* the longest run of consecutive correct answers in h
LongestRun(h) ==
    LET runs == {TrailingCorrect(SubSeq(h, 1, k)) : k \in 0..Len(h)}
    IN  CHOOSE r \in runs : \A other \in runs : other <= r

\* C7: currentStreak is the number of consecutive correct answers at the end
\* of the recorded sequence, maxStreak the longest run seen so far.
C7_Streaks ==
    /\ state.progress.rollingStats.currentStreak = TrailingCorrect(history)
    /\ state.progress.rollingStats.maxStreak = LongestRun(history)
    /\ state.progress.rollingStats.maxStreak >= state.progress.rollingStats.currentStreak

\* [correct, correct, incorrect, correct] was recorded
C7_Witness ==
    /\ Len(history) = 4
    /\ history[1].correct /\ history[2].correct /\ ~history[3].correct /\ history[4].correct
    /\ state.progress.rollingStats.currentStreak = 1
    /\ state.progress.rollingStats.maxStreak = 2

\* C8: RESET_QUIZ clears currentQuestion, answered, selectedAnswer and
\* isCorrect and leaves progress, birds and settings as they were.
C8_ResetFrame ==
    [][ResetQuizAction =>
          /\ state'.currentQuestion = NULL
          /\ state'.answered = FALSE
          /\ state'.selectedAnswer = NullStr
          /\ state'.isCorrect = NULL
          /\ state'.progress = state.progress
          /\ state'.birds = state.birds
          /\ state'.settings = state.settings]_vars

\* the state a reset leaves behind after an answered question: the loading
\* flag is set although no load is pending, and answers are on record
C8_Witness ==
    /\ state.birdsLoading
    /\ pendingLoads = 0
    /\ Len(state.birds) > 0
    /\ state.currentQuestion = NULL
    /\ state.progress.rollingStats.totalAnswers > 0

\* C9: applying RESET_QUIZ twice yields the same state as applying it once.
C9_ResetIdempotent ==
    \A once \in quizReducer(state, [type |-> "RESET_QUIZ"]) :
        quizReducer(once, [type |-> "RESET_QUIZ"]) = {once}

\* a state with species loaded that a reset maps to itself
C9_Witness ==
    /\ Len(state.birds) > 0
    /\ pendingLoads = 0
    /\ state = ResetQuiz(state)
    /\ presented > 0

\* C10: after RESET_QUIZ in a state where species are loaded, birdsLoading is
\* still false and selectIsQuizReady is still true.
C10_ResetStaysReady ==
    [][(ResetQuizAction /\ selectIsQuizReady(state)) =>
          (~selectIsLoading(state') /\ selectIsQuizReady(state'))]_vars

\* C11: NEXT_QUESTION sets currentQuestion to a result of generateQuestion on
\* the current pool and settings, so to null when generation fails, resets
\* answered, selectedAnswer and isCorrect and changes nothing else.
C11_NextQuestion ==
    [][(state'.settings = state.settings /\ NextQuestion) =>
          /\ state'.currentQuestion \in generateQuestion(state.birds, state.settings)
          /\ state'.answered = FALSE
          /\ state'.selectedAnswer = NullStr
          /\ state'.isCorrect = NULL
          /\ state' = [state EXCEPT !.currentQuestion = state'.currentQuestion,
                                    !.answered = FALSE, !.selectedAnswer = NullStr,
                                    !.isCorrect = NULL]]_vars

\* the species list was emptied by a reload while a question was shown and
\* the stored settings are still in force: the next question replaced the
\* stale question by null
C11_Witness ==
    /\ state.currentQuestion = NULL
    /\ state.settings = RoundStoredSettings
    /\ state.birds = <<>>
    /\ ~state.birdsLoading
    /\ ~state.answered

C13_SettingsRecover ==
    [][\A settings \in QuizSettingsSet :
          (/\ UpdateSettings(settings)
           /\ state.currentQuestion = NULL
           /\ Len(state.birds) > 0
           /\ NULL \notin generateQuestion(state.birds, settings))
          => state'.currentQuestion # NULL]_vars

C15_OptionsNeverFail ==
    [][(GenOption /\ genHead.question.answerFormat \in {"photo", "audio"}) =>
          /\ genPc' \in {"options", "shuffle"}
          /\ Len(genOptions') = Len(genOptions) + 1]_vars

\* the species of the pool with the given id
BirdById(birds, id) == CHOOSE bird \in Range(birds) : bird.id = id

\* C16: createMixedOption for type text-image or image-only with
\* excludePhotoUrl set, on a species whose only photo is the excluded one,
\* returns a text option with the species' id and no imageUrl; for type
\* audio-only with the species' only recording excluded it returns a text
\* option with no audioUrl.
C16_MixedOptionDowngrade ==
    (fnCall # NULL /\ fnCall.fn = "createMixedOption" /\ fnResult # NULL) =>
        LET params == fnCall.params
            option == fnResult.some
        IN  /\ (/\ params.type \in {"text-image", "image-only"}
                /\ Truthy(params.excludePhotoUrl)
                /\ PhotoUrlsOf(params.bird) = {params.excludePhotoUrl}) =>
                   /\ option.type = "text"
                   /\ option.id = params.bird.id
                   /\ ~HasField(option, "imageUrl")
            /\ (/\ params.type = "audio-only"
                /\ Truthy(params.excludeAudioUrl)
                /\ AudioUrlsOf(params.bird) = {params.excludeAudioUrl}) =>
                   /\ option.type = "text"
                   /\ option.id = params.bird.id
                   /\ ~HasField(option, "audioUrl")

\* an image-only option was requested for a species with one photo and no
\* recording, with that photo excluded, and a text option was returned
C16_Witness ==
    /\ fnCall # NULL
    /\ fnCall.fn = "createMixedOption"
    /\ fnResult # NULL
    /\ fnCall.params.type = "image-only"
    /\ fnCall.params.bird = Bird(1, 1, 0)
    /\ PhotoUrlsOf(fnCall.params.bird) = {fnCall.params.excludePhotoUrl}
    /\ fnResult.some.type = "text"

\* C17: in a returned question every image-only or text-image option carries
\* an imageUrl that is a photo of its own species and every audio-only option
\* an audioUrl that is a recording of its own species.
C17_OptionMediaOwned ==
    Returned =>
        \A i \in 1..Len(genResult.options) :
            LET option == genResult.options[i]
                bird == BirdById(genBirds, option.id)
            IN  /\ option.type \in {"image-only", "text-image"} =>
                       /\ HasField(option, "imageUrl")
                       /\ option.imageUrl \in PhotoUrlsOf(bird)
                /\ option.type = "audio-only" =>
                       /\ HasField(option, "audioUrl")
                       /\ option.audioUrl \in AudioUrlsOf(bird)

\* C18: generateNameToMediaQuestion(pool, 'text') returns null for every pool,
\* and generateQuestion with only name-to-media and only text enabled never
\* gets past the generator's rejection and returns null.
C18_NameToMediaRejectsText ==
    /\ generateNameToMediaQuestion(genBirds, "text") = {NULL}
    /\ (/\ genSettings.enabledQuestionTypes = <<"name-to-media">>
        /\ genSettings.enabledAnswerFormats = <<"text">>) =>
           /\ genPc \in {"idle", "loop", "done"}
           /\ genHead = NULL
           /\ genResult = NULL

\* null was returned after 10 rejected attempts on a pool of four species
\* with photos and recordings
C18_Witness ==
    /\ genPc = "done"
    /\ genResult = NULL
    /\ attempts = 10
    /\ genBirds = PoolSingle
    /\ genSettings.enabledQuestionTypes = <<"name-to-media">>
    /\ genSettings.enabledAnswerFormats = <<"text">>

\* C19: on a pool of fewer than 4 species generateQuestion returns null
\* without an attempt and without a call of a type generator, whatever the
\* settings.
C19_SmallPoolFloor ==
    Len(genBirds) < 4 =>
        /\ attempts = 0
        /\ calls = 0
        /\ genHead = NULL
        /\ genPc \in {"idle", "done"}
        /\ genResult = NULL
        /\ \A n \in 0..Len(genBirds) :
               generateQuestion(SubSeq(genBirds, 1, n), genSettings) = {NULL}

\* the call returned on a pool of three species that all have photos
C19_Witness ==
    /\ genPc = "done"
    /\ genBirds = PoolSmall
    /\ genSettings.enabledQuestionTypes = <<"photo-to-name">>
    /\ genSettings.enabledAnswerFormats = <<"text">>

\* C20: on a pool of exactly 4 species with one photo and one recording each,
\* with only photo-to-name and only text enabled, no attempt fails and the
\* returned question has mediaType photo and 4 options, all of type text.
C20_FourSpeciesTextQuestion ==
    (/\ genBirds = PoolSingle
     /\ genSettings.enabledQuestionTypes = <<"photo-to-name">>
     /\ genSettings.enabledAnswerFormats = <<"text">>) =>
        /\ attempts = 0
        /\ genPc = "done" =>
               /\ genResult # NULL
               /\ genResult.mediaType = "photo"
               /\ Len(genResult.options) = 4
               /\ \A i \in 1..Len(genResult.options) : genResult.options[i].type = "text"

\* the question was returned for that pool and those settings
C20_Witness ==
    /\ Returned
    /\ genBirds = PoolSingle
    /\ genSettings.enabledQuestionTypes = <<"photo-to-name">>
    /\ genSettings.enabledAnswerFormats = <<"text">>

\* C21: for a pool with distinct ids and a correct species in it,
\* getWrongAnswers(pool, correct, 3) returns members of the pool, none with
\* the correct species' id and no two with the same id: exactly 3 of them when
\* the pool has at least 4 species, all the other species when fewer than 3
\* other species exist.
C21_WrongAnswers ==
    (fnCall # NULL /\ fnCall.fn = "getWrongAnswers" /\ fnResult # NULL) =>
        LET allBirds == fnCall.allBirds
            correctBird == fnCall.correctBird
            wrongBirds == fnResult.some
            others == {bird \in Range(allBirds) : bird.id # correctBird.id}
        IN  (DistinctIds(allBirds) /\ correctBird \in Range(allBirds)) =>
                /\ Len(allBirds) >= 4 => Len(wrongBirds) = 3
                /\ Range(wrongBirds) \subseteq Range(allBirds)
                /\ \A i \in 1..Len(wrongBirds) : wrongBirds[i].id # correctBird.id
                /\ DistinctIds(wrongBirds)
                /\ Cardinality(others) < 3 =>
                       (Range(wrongBirds) = others /\ Len(wrongBirds) = Cardinality(others))

\* three of the four other species of a pool of five were returned, the last
\* species of the pool first
C21_Witness ==
    /\ fnCall # NULL
    /\ fnCall.fn = "getWrongAnswers"
    /\ fnResult # NULL
    /\ Len(fnCall.allBirds) = 5
    /\ fnCall.correctBird = fnCall.allBirds[1]
    /\ Len(fnResult.some) = 3
    /\ fnResult.some[1] = fnCall.allBirds[5]

\* C22: each RECORD_ANSWER increases overallStats.totalQuestions by exactly 1
\* and overallStats.correct by 1 exactly when the answer is correct, and sets
\* accuracy to 100 * correct / totalQuestions rounded to the nearest integer
\* (a half rounds up); so 0 <= correct <= totalQuestions and
\* 0 <= accuracy <= 100.
C22_OverallStats ==
    [][DispatchRecordAnswerShared =>
          LET old == state.progress.overallStats
              new == state'.progress.overallStats
              payload == history'[Len(history')]
          IN  /\ new.totalQuestions = old.totalQuestions + 1
              /\ new.correct = old.correct + (IF payload.correct THEN 1 ELSE 0)
              /\ 2 * new.totalQuestions * new.accuracy
                     <= 200 * new.correct + new.totalQuestions
              /\ 200 * new.correct + new.totalQuestions
                     < 2 * new.totalQuestions * (new.accuracy + 1)
              /\ 0 <= new.correct /\ new.correct <= new.totalQuestions
              /\ 0 <= new.accuracy /\ new.accuracy <= 100]_vars

\* C23: RECORD_ANSWER does not modify the Progress value of the previous
\* state: read after the transition, it holds the same overallStats, modeStats
\* and speciesStats as before; and the reducer applied twice to the same
\* previous state and action returns the Progress it returns when applied
\* once.
C23_RecordAnswerPure ==
    [][DispatchRecordAnswerShared =>
          LET payload == history'[Len(history')]
          IN  /\ ProgressThrough(sharedStats', state.progress) = state.progress
              /\ ReduceRecordAnswer(sharedStats, state.progress, payload, 2)
                     = ReduceRecordAnswer(sharedStats, state.progress, payload, 1)]_vars

\* C24: an error thrown inside a generator propagates out of generateQuestion:
\* when the generator throws for every enabled question type and answer
\* format, no attempt is counted as failed and the call does not return null.
C24_ErrorsPropagate ==
    (\A questionType \in Range(genSettings.enabledQuestionTypes),
        answerFormat \in Range(genSettings.enabledAnswerFormats) :
          GeneratorThrows(questionType, answerFormat, genBirds)) =>
        /\ attempts = 0
        /\ ~(genPc = "done" /\ genResult = NULL)

\* the questions generateQuestion can return for the species a load delivers,
\* under each of the settings a user stores
FirstQuestions == [settings \in QuizSettingsSet |-> generateQuestion(QuizPool, settings)]

\* C25: when a load resolves (a pending load ends and leaves no error), the
\* state stores the loaded species with birdsLoading = false; for a non-empty
\* list START_QUIZ follows: the question is a result of generateQuestion on
\* the loaded species and answered, selectedAnswer and isCorrect are cleared;
\* for an empty list no question is generated: currentQuestion stays what it
\* was, null when it was null.
C25_LoadSuccess ==
    [][(pendingLoads' = pendingLoads - 1 /\ state'.birdsError = NullStr) =>
          /\ state'.birds \in Datasets
          /\ ~state'.birdsLoading
          /\ Len(state'.birds) > 0 =>
                 /\ state'.birds = QuizPool
                 /\ state'.currentQuestion \in FirstQuestions[state.settings]
                 /\ ~state'.answered
                 /\ state'.selectedAnswer = NullStr
                 /\ state'.isCorrect = NULL
          /\ Len(state'.birds) = 0 =>
                 /\ state'.currentQuestion = state.currentQuestion
                 /\ state'.answered = state.answered
          /\ state' = [state EXCEPT !.birds = state'.birds, !.birdsLoading = FALSE,
                                    !.birdsError = NullStr,
                                    !.currentQuestion = state'.currentQuestion,
                                    !.answered = state'.answered,
                                    !.selectedAnswer = state'.selectedAnswer,
                                    !.isCorrect = state'.isCorrect]]_vars

\* the first load has resolved with species and the first question is shown,
\* not yet answered
C25_Witness ==
    /\ Len(state.birds) > 0
    /\ ~state.birdsLoading
    /\ state.birdsError = NullStr
    /\ state.currentQuestion # NULL
    /\ ~state.answered
    /\ history = <<>>
    /\ pendingLoads = 0

\* C26: while birdsError is set, answerQuestion, nextQuestion and
\* updateSettings (ANSWER_QUESTION, RECORD_ANSWER, NEXT_QUESTION,
\* UPDATE_SETTINGS) leave currentQuestion, answered and progress unchanged, and
\* only the start of a load clears birdsError.
C26_ErrorBlocksQuiz ==
    [][Truthy(state.birdsError) =>
          /\ (\/ \E answerId \in {"b1", "b2", "b3", "b4"} : AnswerQuestion(answerId)
              \/ NextQuestion
              \/ \E settings \in QuizSettingsSet : UpdateSettings(settings)) =>
                 /\ state'.currentQuestion = state.currentQuestion
                 /\ state'.answered = state.answered
                 /\ state'.progress = state.progress
          /\ ~Truthy(state'.birdsError) => LoadBirds]_vars

\* the species of the pool that pass the eligibility filter of the generator
\* of a question
EligibleBirds(question, birds) ==
    CASE question.questionType = "photo-to-name" -> filterBirdsWithPhotos(birds)
      [] question.questionType = "audio-to-name" -> filterBirdsWithRecordings(birds)
      [] question.questionType = "photo-audio-to-name" -> filterBirdsWithBothMedia(birds)
      [] question.questionType = "name-to-media" ->
           filterBirdsByAnswerFormat(birds, question.answerFormat)

\* C27: a type generator returns null when fewer than 4 species of the pool
\* pass its eligibility filter: it goes on to draw wrong birds, and returns a
\* question, only for a pool with at least 4 eligible species.
C27_EligiblePoolFloor ==
    /\ genHead # NULL => Len(EligibleBirds(genHead.question, genBirds)) >= 4
    /\ Returned => Len(EligibleBirds(genResult, genBirds)) >= 4

\* the options that show only an image or only a sound
MediaOnlyOptions(options) ==
    {i \in 1..Len(options) : options[i].type \in {"image-only", "audio-only"}}

\* C28: question generation never passes hideLabel, so every image-only or
\* audio-only option it builds, for every answer format, has hideLabel = true.
C28_MediaOptionsHideLabel ==
    /\ \A i \in MediaOnlyOptions(genOptions) :
           HasField(genOptions[i], "hideLabel") /\ genOptions[i].hideLabel
    /\ Returned =>
           \A i \in MediaOnlyOptions(genResult.options) :
               HasField(genResult.options[i], "hideLabel") /\ genResult.options[i].hideLabel

\* C29: getRandomPhotoDifferentFrom and getRandomRecordingDifferentFrom never
\* return an item with the excluded URL; they return null exactly when the
\* species has no item with another URL (none at all included), and otherwise
\* an item of the species.
C29_DifferentFrom ==
    /\ (fnCall # NULL /\ fnCall.fn = "getRandomPhotoDifferentFrom" /\ fnResult # NULL) =>
           LET photoUrl == fnResult.some
               others == PhotoUrlsOf(fnCall.bird) \ {fnCall.excludeUrl}
           IN  /\ photoUrl # fnCall.excludeUrl
               /\ photoUrl = NullStr <=> others = {}
               /\ photoUrl # NullStr => photoUrl \in PhotoUrlsOf(fnCall.bird)
    /\ (fnCall # NULL /\ fnCall.fn = "getRandomRecordingDifferentFrom" /\ fnResult # NULL) =>
           LET recording == fnResult.some
               others == AudioUrlsOf(fnCall.bird) \ {fnCall.excludeUrl}
           IN  /\ recording = NULL <=> others = {}
               /\ recording # NULL =>
                      /\ recording \in Range(fnCall.bird.recordings)
                      /\ getRecordingAudioUrl(recording) # fnCall.excludeUrl

\* a photo other than the excluded one was returned for a species that has
\* the excluded photo
C29_Witness ==
    /\ fnCall # NULL
    /\ fnCall.fn = "getRandomPhotoDifferentFrom"
    /\ fnResult # NULL
    /\ fnCall.excludeUrl \in PhotoUrlsOf(fnCall.bird)
    /\ fnResult.some # NullStr

\* C30: whenever the state is answered, there is a current question,
\* isCorrect says whether the selected answer is the question's correct answer,
\* and the record answerQuestion appended to Progress carries that correctness
\* and the id of the question's correct species.
C30_AnsweredConsistent ==
    state.answered =>
        /\ state.currentQuestion # NULL
        /\ state.isCorrect = Some(state.selectedAnswer = state.currentQuestion.correctAnswer)
        /\ Len(history) > 0
        /\ Len(state.progress.rollingStats.answers) > 0
        /\ LET answers == state.progress.rollingStats.answers
               appended == answers[Len(answers)]
           IN  /\ appended = history[Len(history)]
               /\ Some(appended.correct) = state.isCorrect
               /\ appended.speciesId = state.currentQuestion.bird.id
               /\ appended.speciesId \in DOMAIN state.progress.speciesStats

\* a correct answer given after a wrong one
C30_Witness ==
    /\ state.answered
    /\ state.isCorrect = Some(TRUE)
    /\ Len(history) >= 2
    /\ ~history[1].correct

\* C31: a question generateQuestion returns has an answer format enabled in
\* the settings and a question type that is enabled or, with 'mixed' enabled,
\* 'photo-to-name' or 'audio-to-name'; it is never tagged 'mixed'.
C31_TagsFromSettings ==
    Returned =>
        LET enabledTypes == Range(genSettings.enabledQuestionTypes)
        IN  /\ genResult.answerFormat \in Range(genSettings.enabledAnswerFormats)
            /\ \/ genResult.questionType \in enabledTypes
               \/ /\ "mixed" \in enabledTypes
                  /\ genResult.questionType \in {"photo-to-name", "audio-to-name"}
            /\ genResult.questionType # "mixed"

\* with only 'mixed' enabled a photo-to-name question was returned
C31_Witness ==
    /\ Returned
    /\ genSettings.enabledQuestionTypes = <<"mixed">>
    /\ genResult.questionType = "photo-to-name"
    /\ genResult.answerFormat = "photo"

\* the correct and total counters of the given species entries added up
RECURSIVE SumSpecies(_, _)
SumSpecies(speciesStats, ids) ==
    IF ids = {}
    THEN [correct |-> 0, total |-> 0]
    ELSE LET id == CHOOSE x \in ids : TRUE
             rest == SumSpecies(speciesStats, ids \ {id})
         IN  [correct |-> rest.correct + speciesStats[id].correct,
              total |-> rest.total + speciesStats[id].total]

\* C32: in a run that started from the default Progress (the rolling buffer
\* holds exactly the answers recorded in the run), the total counters of
\* overallStats, modeStats, rollingStats and the species entries agree, so do
\* the correct counters, every species entry has correct <= total, and a
\* species has an entry exactly when an answer about it was recorded.
C32_CountersAgree ==
    state.progress.rollingStats.answers = history =>
        LET progress == state.progress
            species == SumSpecies(progress.speciesStats, DOMAIN progress.speciesStats)
        IN  /\ progress.overallStats.totalQuestions = progress.modeStats.total
            /\ progress.modeStats.total = progress.rollingStats.totalAnswers
            /\ progress.rollingStats.totalAnswers = species.total
            /\ progress.overallStats.correct = progress.modeStats.correct
            /\ progress.modeStats.correct = species.correct
            /\ \A id \in DOMAIN progress.speciesStats :
                   progress.speciesStats[id].correct <= progress.speciesStats[id].total
            /\ DOMAIN progress.speciesStats = {history[i].speciesId : i \in 1..Len(history)}

\* answered, selectedAnswer and isCorrect are set together or not at all
AnswerFieldsTogether(s) ==
    /\ ~s.answered <=> s.selectedAnswer = NullStr
    /\ ~s.answered <=> s.isCorrect = NULL

EnabledNonEmpty(settings) ==
    /\ Len(settings.enabledQuestionTypes) > 0
    /\ Len(settings.enabledAnswerFormats) > 0

\* C34: whatever the user toggles, in the hook or in the dialog, the enabled
\* question types and answer formats never become empty; toggling the only
\* enabled item leaves the settings unchanged; and updateSettings called with
\* an empty array returns false and changes neither the settings nor the
\* stored item.
C34_EnabledNeverEmpty ==
    /\ EnabledNonEmpty(hookSettings)
    /\ localSettings # NULL => EnabledNonEmpty(localSettings)
    /\ \A questionType \in QuestionTypes :
           hookSettings.enabledQuestionTypes = <<questionType>> =>
               toggleQuestionType(hookSettings, questionType) = hookSettings
    /\ \A answerFormat \in AnswerFormats :
           hookSettings.enabledAnswerFormats = <<answerFormat>> =>
               toggleAnswerFormat(hookSettings, answerFormat) = hookSettings
    /\ \A newSettings \in UpdateInputs :
           ~EnabledNonEmpty(newSettings) =>
               updateSettingsOutcomes(hookSettings, storedSettings, newSettings)
                   = {[settings |-> hookSettings, stored |-> storedSettings,
                       result |-> FALSE]}
    /\ (fnCall # NULL /\ ~EnabledNonEmpty(fnCall.newSettings)) => fnResult = Some(FALSE)

\* updateSettings was refused an empty array while the hook and the dialog
\* each hold a single question type and a single answer format
C34_Witness ==
    /\ fnCall # NULL
    /\ fnCall.newSettings.enabledQuestionTypes = <<>>
    /\ fnResult = Some(FALSE)
    /\ Len(hookSettings.enabledQuestionTypes) = 1
    /\ Len(hookSettings.enabledAnswerFormats) = 1
    /\ localSettings # NULL
    /\ Len(localSettings.enabledQuestionTypes) = 1
    /\ localSettings # hookSettings

\* C35: the photo selectRandomMedia returns never has the cached key
\* usedMedia.photoUrl and the recording it returns never has the cachedAudio
\* key usedMedia.audioUrl.
C35_UsedMediaExcluded ==
    (fnCall # NULL /\ fnCall.fn = "selectRandomMedia" /\ fnResult # NULL) =>
        LET selected == fnResult.some
        IN  /\ HasField(selected, "photo") =>
                   selected.photo.cached # fnCall.usedMedia.photoUrl
            /\ HasField(selected, "recording") =>
                   selected.recording.cachedAudio # fnCall.usedMedia.audioUrl

\* the actions other than RECORD_ANSWER that the reducer handles without
\* generating a question
PlainActions ==
    {[type |-> "LOAD_BIRDS_START"], [type |-> "LOAD_BIRDS_SUCCESS", payload |-> <<>>],
     [type |-> "LOAD_BIRDS_ERROR", payload |-> "Failed to load birds"],
     [type |-> "SET_QUESTION", payload |-> NULL],
     [type |-> "ANSWER_QUESTION", payload |-> [answerId |-> "b1", isCorrect |-> TRUE]],
     [type |-> "TOGGLE_SETTINGS_MODAL"], [type |-> "RESET_QUIZ"],
     [type |-> "CHANGE_REGION", payload |-> "missouri"]}

C37_TrackersAgree ==
    /\ hookProgress.rollingStats.answers = state.progress.rollingStats.answers
    /\ Len(hookProgress.rollingStats.answers) <= ROLLING_BUFFER_SIZE
    /\ hookProgress.rollingStats.currentStreak = state.progress.rollingStats.currentStreak
    /\ hookProgress.rollingStats.maxStreak = state.progress.rollingStats.maxStreak
    /\ hookProgress.rollingStats.totalAnswers = state.progress.rollingStats.totalAnswers
    /\ hookProgress.overallStats = state.progress.overallStats
    /\ hookProgress.modeStats = state.progress.modeStats
    /\ hookProgress.speciesStats = state.progress.speciesStats

\* 22 answers went to both trackers: the buffers evicted twice
C37_Witness ==
    /\ Len(history) = 22
    /\ Len(hookProgress.rollingStats.answers) = 20
    /\ hookProgress.rollingStats.answers[1] = history[3]
    /\ state.progress.rollingStats.answers[20] = history[22]
    /\ hookProgress.rollingStats.totalAnswers = 22

\* C38: once every load has settled, the species and the question in the
\* state are those of the load that was started last, in whatever order the
\* fetches resolved.
C38_LatestLoadWins ==
    (/\ Len(inFlight) > 0
     /\ PendingLoads = {}
     /\ inFlight[Len(inFlight)].status = "resolved") =>
        LET latest == inFlight[Len(inFlight)].birds
        IN  /\ state.birds = latest
            /\ state.currentQuestion # NULL => state.currentQuestion.bird \in Range(latest)

====
